---- MODULE Spec2Model ----
(***************************************************************************)
(* A model of the koto lexer (crates/lexer/src/lexer.rs) and of the        *)
(* runtime tuple type (crates/runtime/src/types/tuple.rs).                 *)
(*                                                                         *)
(* A source text is a sequence of characters.  An ASCII character is the   *)
(* one-character string holding it; a non-ASCII character is named by its  *)
(* code point ("U+00E9").  Byte offsets are computed from the characters'  *)
(* UTF-8 lengths, columns from their display widths.                       *)
(***************************************************************************)
EXTENDS Integers, Sequences, FiniteSets, TLC

VARIABLES
    source,        \* TokenLexer::source, as a sequence of characters
    lexer,         \* KotoLexer::lexer, the TokenLexer's fields
    token_queue,   \* KotoLexer::token_queue
    out,           \* history: the LexedTokens returned by KotoLexer::next so far
    last,          \* history: the last call made on the KotoLexer and its result
    pc,            \* "run", or how the program ended: "panic" / "hang"
    tick,          \* history: parity of the number of next() calls
    copy,          \* a clone of the KotoLexer, and the history of the calls on it
    data,          \* the shared Vec<KValue> of the tuples, as its length
    tup,           \* the KTuple under test
    kept,          \* another KTuple on the same storage, and whether it shares tup's Ptr<TupleSlice>
    tlast,         \* history: the last tuple operation and its result
    fmt,           \* the text given to the formatter, its options, and the passes made over it
    pipe,          \* a piped expression: its left operand, the chain it is piped into, the result
    ctx,           \* a DisplayContext: the containers being rendered, the text, and the display made
    meta,          \* a byte, and the result of MetaKeyId::try_from on it
    fncall,        \* a call of a builtin made with single_arg_fn!, and its result
    objs           \* host objects: the objects, the variables bound to them, the last statement

hostvars == <<meta, fncall, objs>>

vars == <<source, lexer, token_queue, out, last, pc, tick, copy, data, tup, kept, tlast, fmt, pipe, ctx, hostvars>>

lexvars == <<source, lexer, token_queue, out, last, pc, tick, copy>>

tupvars == <<data, tup, kept, tlast>>

(***************************************************************************)
(* Characters                                                              *)
(***************************************************************************)

LowerLetters ==
    {"a", "b", "c", "d", "e", "f", "g", "h", "i", "j", "k", "l", "m",
     "n", "o", "p", "q", "r", "s", "t", "u", "v", "w", "x", "y", "z"}

UpperLetters == {"A", "B", "C", "D", "E", "F", "X", "Y", "Z"}

\* U+00E9 (e acute): 2 bytes, width 1, XID_Start
\* U+4E2D (CJK "middle"): 3 bytes, width 2, XID_Start
\* U+00A7 (section sign): 2 bytes, width 1, not an identifier character
\* U+20AC (euro sign): 3 bytes, width 1, not an identifier character
\* U+0301 (combining acute): 2 bytes, width 0, XID_Continue only
len_utf8(c) ==
    IF c \in {"U+00E9", "U+00A7", "U+0301"} THEN 2
    ELSE IF c \in {"U+4E2D", "U+20AC"} THEN 3
    ELSE 1

\* c.width().unwrap_or(0): control characters have no width
width(c) ==
    IF c \in {"\n", "\r", "\t", "U+0301"} THEN 0
    ELSE IF c = "U+4E2D" THEN 2
    ELSE 1

is_digit(c) == c \in {"0", "1", "2", "3", "4", "5", "6", "7", "8", "9"}

is_binary_digit(c) == c \in {"0", "1"}

is_octal_digit(c) == c \in {"0", "1", "2", "3", "4", "5", "6", "7"}

is_hex_digit(c) ==
    \/ is_digit(c)
    \/ c \in {"a", "b", "c", "d", "e", "f", "A", "B", "C", "D", "E", "F"}

is_whitespace(c) == c \in {" ", "\t"}

is_id_start(c) == c \in LowerLetters \cup UpperLetters \cup {"U+00E9", "U+4E2D"}

is_id_continue(c) == is_id_start(c) \/ is_digit(c) \/ c \in {"_", "U+0301"}

\* The predicates handed to consume_and_count / consume_and_count_utf8
Matches(pred, c) ==
    CASE pred = "is_digit" -> is_digit(c)
      [] pred = "is_binary_digit" -> is_binary_digit(c)
      [] pred = "is_octal_digit" -> is_octal_digit(c)
      [] pred = "is_hex_digit" -> is_hex_digit(c)
      [] pred = "is_whitespace" -> is_whitespace(c)
      [] pred = "is_id_continue" -> is_id_continue(c)
      [] pred = "not_newline" -> c \notin {"\r", "\n"}

\* StringQuote::try_from(char)
QuoteOf(c) ==
    IF c = "\"" THEN "Double" ELSE IF c = "'" THEN "Single" ELSE "NoQuote"

(***************************************************************************)
(* The source as a str: characters, byte offsets, the Peekable<Chars>      *)
(***************************************************************************)

\* chars.peek() at character index i; "EOF" stands for None
CharAt(src, i) == IF i >= 1 /\ i <= Len(src) THEN src[i] ELSE "EOF"

RECURSIVE SumBytes(_, _, _)
\* the UTF-8 length of the characters i..j of src
SumBytes(src, i, j) ==
    IF i > j THEN 0 ELSE len_utf8(src[i]) + SumBytes(src, i + 1, j)

RECURSIVE SumWidth(_, _, _)
\* the display width of the characters i..j of src
SumWidth(src, i, j) ==
    IF i > j THEN 0 ELSE width(src[i]) + SumWidth(src, i + 1, j)

\* source.len()
ByteLen(src) == SumBytes(src, 1, Len(src))

\* The index of the character that starts at byte b (Len(src) + 1 for the end
\* of the source), or 0 when b is no character boundary of src: str::get(b..)
\* is None there.
CharIndexAt(src, b) ==
    LET hits == {i \in 1..(Len(src) + 1) : SumBytes(src, 1, i - 1) = b}
    IN  IF hits = {} THEN 0 ELSE CHOOSE i \in hits : TRUE

RECURSIVE CountWhile(_, _, _)
\* the number of characters from index i on that match pred
CountWhile(src, i, pred) ==
    IF i <= Len(src) /\ Matches(pred, src[i])
    THEN 1 + CountWhile(src, i + 1, pred)
    ELSE 0

\* consume_and_count: one byte is counted per character
consume_and_count(src, i, pred) == CountWhile(src, i, pred)

\* consume_and_count_utf8: (char_bytes, char_count)
consume_and_count_utf8(src, i, pred) ==
    LET n == CountWhile(src, i, pred)
    IN  [n |-> n,
         char_bytes |-> SumBytes(src, i, i + n - 1),
         char_count |-> SumWidth(src, i, i + n - 1)]

\* remaining.starts_with(s) with remaining starting at character i
StartsWith(src, i, s) ==
    /\ i + Len(s) - 1 <= Len(src)
    /\ \A k \in 1..Len(s) : src[i + k - 1] = s[k]

(***************************************************************************)
(* Tokens, string modes, positions                                         *)
(***************************************************************************)

NoToken == "None"

StringStart(quote, raw) ==
    IF raw THEN (IF quote = "Double" THEN "StringStartDoubleRaw" ELSE "StringStartSingleRaw")
    ELSE (IF quote = "Double" THEN "StringStartDouble" ELSE "StringStartSingle")

Mode(m, q) == [mode |-> m, quote |-> q]

Literal(q) == Mode("Literal", q)

TemplateStart == Mode("TemplateStart", "NoQuote")

TemplateExpression == Mode("TemplateExpression", "NoQuote")

TemplateExpressionInlineMap == Mode("TemplateExpressionInlineMap", "NoQuote")

RawStart(q) == Mode("RawStart", q)

RawEnd(q) == Mode("RawEnd", q)

NoMode == Mode("None", "NoQuote")

Position(l, c) == [line |-> l, column |-> c]

\* Span::default(): both positions at line 1, column 1
SpanDefault == [start |-> Position(1, 1), end |-> Position(1, 1)]

\* Vec::push / Vec::pop / Vec::last on the string mode stack
\* A faulty push that overwrites the top entry: a string opened inside a
\* template expression having a mode of its own (C13) depends on the push.
Push_over_top(stack, m) ==
    IF stack = <<>> THEN <<m>> ELSE [stack EXCEPT ![Len(stack)] = m]

Push(stack, m) == Append(stack, m)

Pop(stack) == IF stack = <<>> THEN stack ELSE SubSeq(stack, 1, Len(stack) - 1)

Top(stack) == IF stack = <<>> THEN NoMode ELSE stack[Len(stack)]

(***************************************************************************)
(* TokenLexer                                                              *)
(***************************************************************************)

TokenLexerNew ==
    [previous_byte |-> 0,
     current_byte |-> 0,
     indent |-> 0,
     previous_token |-> NoToken,
     span |-> SpanDefault,
     string_mode_stack |-> <<>>]

\* what a consume_* function returns, with the lexer it leaves behind
Res(tok, L) == [token |-> tok, lx |-> L]

current_position(L) == L.span.end

\* A faulty advance_line_utf8 that forgets to move previous_byte: the
\* contiguity of the byte ranges (C1) depends on that assignment.
advance_line_utf8_stale_start(L, char_bytes, char_count) ==
    [L EXCEPT !.current_byte = L.current_byte + char_bytes,
              !.span = [start |-> L.span.end,
                        end |-> Position(L.span.end.line,
                                         L.span.end.column + char_count)]]

advance_line_utf8(L, char_bytes, char_count) ==
    [L EXCEPT !.previous_byte = L.current_byte,
              !.current_byte = L.current_byte + char_bytes,
              !.span = [start |-> L.span.end,
                        end |-> Position(L.span.end.line,
                                         L.span.end.column + char_count)]]

advance_line(L, char_bytes) == advance_line_utf8(L, char_bytes, char_bytes)

advance_to_position(L, char_bytes, position) ==
    [L EXCEPT !.previous_byte = L.current_byte,
              !.current_byte = L.current_byte + char_bytes,
              !.span = [start |-> L.span.end, end |-> position]]

WithStack(L, stack) == [L EXCEPT !.string_mode_stack = stack]

\* a consume_newline that counts a line for each of "\r" and "\n"
consume_newline_counting_cr(L, src, i) ==
    LET has_cr == CharAt(src, i) = "\r"
        consumed_bytes == IF has_cr THEN 2 ELSE 1
        j == IF has_cr THEN i + 1 ELSE i
    IN  IF CharAt(src, j) = "\n"
        THEN Res("NewLine",
                 advance_to_position(L, consumed_bytes,
                                     Position(current_position(L).line + consumed_bytes, 1)))
        ELSE Res("Error", L)

consume_newline(L, src, i) ==
    LET has_cr == CharAt(src, i) = "\r"
        consumed_bytes == IF has_cr THEN 2 ELSE 1
        j == IF has_cr THEN i + 1 ELSE i
    IN  IF CharAt(src, j) = "\n"
        THEN Res("NewLine",
                 advance_to_position(L, consumed_bytes,
                                     Position(current_position(L).line + 1, 1)))
        ELSE Res("Error", L)

RECURSIVE CommentLoop(_, _, _, _, _)
\* the while loop of consume_comment over a multi-line comment, from the
\* character j on: how it ends, and the byte count and position reached
CommentLoop(src, j, char_bytes, line, column) ==
    IF j > Len(src)
    THEN [end |-> "eof", char_bytes |-> char_bytes, position |-> Position(line, column)]
    ELSE LET c == src[j]
             b == char_bytes + len_utf8(c)
             col == column + width(c)
         IN  CASE c = "#" ->
                    IF CharAt(src, j + 1) = "-"
                    THEN CommentLoop(src, j + 2, b + 1, line, col + 1)
                    ELSE CommentLoop(src, j + 1, b, line, col)
               [] c = "-" ->
                    IF CharAt(src, j + 1) = "#"
                    THEN [end |-> "found", char_bytes |-> b + 1,
                          position |-> Position(line, col + 1)]
                    ELSE CommentLoop(src, j + 1, b, line, col)
               [] c = "\r" ->
                    IF CharAt(src, j + 1) = "\n"
                    THEN CommentLoop(src, j + 2, b + 1, line + 1, 1)
                    ELSE [end |-> "error", char_bytes |-> b,
                          position |-> Position(line, col)]
               [] c = "\n" -> CommentLoop(src, j + 1, b, line + 1, 1)
               [] OTHER -> CommentLoop(src, j + 1, b, line, col)

consume_comment(L, src, i) ==
    IF CharAt(src, i + 1) = "-"
    THEN LET r == CommentLoop(src, i + 1, 1, current_position(L).line,
                              current_position(L).column + 1)
         IN  CASE r.end = "error" -> Res("Error", L)
               [] r.end = "found" ->
                    Res("CommentMulti", advance_to_position(L, r.char_bytes, r.position))
               [] OTHER ->
                    Res("Error", advance_to_position(L, r.char_bytes, r.position))
    ELSE LET r == consume_and_count_utf8(src, i + 1, "not_newline")
         IN  Res("CommentSingle",
                 advance_line_utf8(L, r.char_bytes + 1, r.char_count + 1))

RECURSIVE StringLiteralLoop_without_escapes(_, _, _, _, _, _)
\* a string literal loop in which a backslash is a character like any other
StringLiteralLoop_without_escapes(src, j, end_quote, string_bytes, line, column) ==
    IF j > Len(src)
    THEN [end |-> "eof", string_bytes |-> string_bytes, position |-> Position(line, column)]
    ELSE LET c == src[j]
         IN  CASE QuoteOf(c) = end_quote \/ c = "$" ->
                    [end |-> "found", string_bytes |-> string_bytes,
                     position |-> Position(line, column)]
               [] c = "\r" ->
                    IF CharAt(src, j + 1) = "\n"
                    THEN StringLiteralLoop_without_escapes(src, j + 2, end_quote,
                                                           string_bytes + 2, line + 1, 1)
                    ELSE [end |-> "error", string_bytes |-> string_bytes,
                          position |-> Position(line, column)]
               [] c = "\n" ->
                    StringLiteralLoop_without_escapes(src, j + 1, end_quote,
                                                      string_bytes + 1, line + 1, 1)
               [] OTHER ->
                    StringLiteralLoop_without_escapes(src, j + 1, end_quote,
                                                      string_bytes + len_utf8(c),
                                                      line, column + width(c))

RECURSIVE StringLiteralLoop(_, _, _, _, _, _)
\* the while loop of consume_string_literal from the character j on
StringLiteralLoop(src, j, end_quote, string_bytes, line, column) ==
    IF j > Len(src)
    THEN [end |-> "eof", string_bytes |-> string_bytes, position |-> Position(line, column)]
    ELSE LET c == src[j]
         IN  CASE QuoteOf(c) = end_quote \/ c = "$" ->
                    [end |-> "found", string_bytes |-> string_bytes,
                     position |-> Position(line, column)]
               [] c = "\\" ->
                    LET n == CharAt(src, j + 1)
                        skip_next_char == n = "$" \/ n = "\\" \/ QuoteOf(n) = end_quote
                    IN  IF skip_next_char
                        THEN StringLiteralLoop(src, j + 2, end_quote, string_bytes + 2,
                                               line, column + 2)
                        ELSE StringLiteralLoop(src, j + 1, end_quote, string_bytes + 1,
                                               line, column + 1)
               [] c = "\r" ->
                    IF CharAt(src, j + 1) = "\n"
                    THEN StringLiteralLoop(src, j + 2, end_quote, string_bytes + 2,
                                           line + 1, 1)
                    ELSE [end |-> "error", string_bytes |-> string_bytes,
                          position |-> Position(line, column)]
               [] c = "\n" ->
                    StringLiteralLoop(src, j + 1, end_quote, string_bytes + 1, line + 1, 1)
               [] OTHER ->
                    StringLiteralLoop(src, j + 1, end_quote, string_bytes + len_utf8(c),
                                      line, column + width(c))

consume_string_literal(L, src, i) ==
    IF Top(L.string_mode_stack).mode # "Literal"
    THEN Res("Error", L)
    ELSE LET r == StringLiteralLoop(src, i, Top(L.string_mode_stack).quote, 0,
                                    current_position(L).line,
                                    current_position(L).column)
         IN  IF r.end = "found"
             THEN Res("StringLiteral", advance_to_position(L, r.string_bytes, r.position))
             ELSE Res("Error", L)

RECURSIVE RawStringLoop_with_escapes(_, _, _, _, _, _)
\* a raw string loop in which a backslash escapes the character after it
RawStringLoop_with_escapes(src, j, end_quote, string_bytes, line, column) ==
    IF j > Len(src)
    THEN [end |-> "eof", string_bytes |-> string_bytes, position |-> Position(line, column)]
    ELSE LET c == src[j]
         IN  CASE c = "\\" /\ j < Len(src) ->
                    RawStringLoop_with_escapes(src, j + 2, end_quote,
                                               string_bytes + 1 + len_utf8(src[j + 1]),
                                               line, column + 1 + width(src[j + 1]))
               [] c # "\\" /\ QuoteOf(c) = end_quote ->
                    [end |-> "found", string_bytes |-> string_bytes,
                     position |-> Position(line, column)]
               [] OTHER ->
                    RawStringLoop_with_escapes(src, j + 1, end_quote,
                                               string_bytes + len_utf8(c),
                                               line, column + width(c))

RECURSIVE RawStringLoop(_, _, _, _, _, _)
\* the while loop of consume_raw_string_contents from the character j on
RawStringLoop(src, j, end_quote, string_bytes, line, column) ==
    IF j > Len(src)
    THEN [end |-> "eof", string_bytes |-> string_bytes, position |-> Position(line, column)]
    ELSE LET c == src[j]
         IN  CASE QuoteOf(c) = end_quote ->
                    [end |-> "found", string_bytes |-> string_bytes,
                     position |-> Position(line, column)]
               [] c = "\r" ->
                    IF CharAt(src, j + 1) = "\n"
                    THEN RawStringLoop(src, j + 2, end_quote, string_bytes + 2, line + 1, 1)
                    ELSE [end |-> "error", string_bytes |-> string_bytes,
                          position |-> Position(line, column)]
               [] c = "\n" ->
                    RawStringLoop(src, j + 1, end_quote, string_bytes + 1, line + 1, 1)
               [] OTHER ->
                    RawStringLoop(src, j + 1, end_quote, string_bytes + len_utf8(c),
                                  line, column + width(c))

consume_raw_string_contents(L, src, i, end_quote) ==
    LET r == RawStringLoop(src, i, end_quote, 0, current_position(L).line,
                           current_position(L).column)
    IN  IF r.end = "found"
        THEN Res("StringLiteral",
                 WithStack(advance_to_position(L, r.string_bytes, r.position),
                           Push(Pop(L.string_mode_stack), RawEnd(end_quote))))
        ELSE Res("Error", L)

consume_raw_string_end(L, src, i, end_quote) ==
    IF QuoteOf(CharAt(src, i)) = end_quote
    THEN Res("StringEnd", advance_line(WithStack(L, Pop(L.string_mode_stack)), 1))
    ELSE Res("Error", L)

\* a consume_number that takes ".e" into the number whatever follows the "e"
consume_number_without_lookahead(L, src, i) ==
    LET has_leading_zero == CharAt(src, i) = "0"
        n0 == consume_and_count(src, i, "is_digit")
        j == i + n0
        c == CharAt(src, j)
        \* the exponent part that follows a decimal number whose digits and
        \* fraction take char_bytes bytes and end before the character k
        Exponent(char_bytes, k) ==
            IF CharAt(src, k) = "e"
            THEN LET sign == IF CharAt(src, k + 1) \in {"+", "-"} THEN 1 ELSE 0
                 IN  char_bytes + 1 + sign
                     + consume_and_count(src, k + 1 + sign, "is_digit")
            ELSE char_bytes
        Prefixed(pred) == n0 + 1 + consume_and_count(src, j + 1, pred)
    IN  CASE c = "b" /\ has_leading_zero /\ n0 = 1 ->
               Res("Number", advance_line(L, Prefixed("is_binary_digit")))
          [] c = "o" /\ has_leading_zero /\ n0 = 1 ->
               Res("Number", advance_line(L, Prefixed("is_octal_digit")))
          [] c = "x" /\ has_leading_zero /\ n0 = 1 ->
               Res("Number", advance_line(L, Prefixed("is_hex_digit")))
          [] c = "." ->
               LET n == CharAt(src, j + 1)
                   la == CharAt(src, j + 2)
                   fraction == consume_and_count(src, j + 1, "is_digit")
               IN  IF \/ is_digit(n)
                      \/ n = "e"
                   THEN Res("Number",
                            advance_line(L, Exponent(n0 + 1 + fraction, j + 1 + fraction)))
                   ELSE Res("Number", advance_line(L, n0))
          [] OTHER -> Res("Number", advance_line(L, Exponent(n0, j)))

consume_number(L, src, i) ==
    LET has_leading_zero == CharAt(src, i) = "0"
        n0 == consume_and_count(src, i, "is_digit")
        j == i + n0
        c == CharAt(src, j)
        \* the exponent part that follows a decimal number whose digits and
        \* fraction take char_bytes bytes and end before the character k
        Exponent(char_bytes, k) ==
            IF CharAt(src, k) = "e"
            THEN LET sign == IF CharAt(src, k + 1) \in {"+", "-"} THEN 1 ELSE 0
                 IN  char_bytes + 1 + sign
                     + consume_and_count(src, k + 1 + sign, "is_digit")
            ELSE char_bytes
        Prefixed(pred) == n0 + 1 + consume_and_count(src, j + 1, pred)
    IN  CASE c = "b" /\ has_leading_zero /\ n0 = 1 ->
               Res("Number", advance_line(L, Prefixed("is_binary_digit")))
          [] c = "o" /\ has_leading_zero /\ n0 = 1 ->
               Res("Number", advance_line(L, Prefixed("is_octal_digit")))
          [] c = "x" /\ has_leading_zero /\ n0 = 1 ->
               Res("Number", advance_line(L, Prefixed("is_hex_digit")))
          [] c = "." ->
               LET n == CharAt(src, j + 1)
                   la == CharAt(src, j + 2)
                   fraction == consume_and_count(src, j + 1, "is_digit")
               IN  IF \/ is_digit(n)
                      \/ n = "e" /\ (is_digit(la) \/ la \in {"+", "-"})
                   THEN Res("Number",
                            advance_line(L, Exponent(n0 + 1 + fraction, j + 1 + fraction)))
                   ELSE Res("Number", advance_line(L, n0))
          [] OTHER -> Res("Number", advance_line(L, Exponent(n0, j)))

\* the check_keyword! table of consume_id_or_keyword, in its order
Keywords ==
    << [str |-> <<"a", "n", "d">>, token |-> "And"],
       [str |-> <<"b", "r", "e", "a", "k">>, token |-> "Break"],
       [str |-> <<"c", "a", "t", "c", "h">>, token |-> "Catch"],
       [str |-> <<"c", "o", "n", "t", "i", "n", "u", "e">>, token |-> "Continue"],
       [str |-> <<"d", "e", "b", "u", "g">>, token |-> "Debug"],
       [str |-> <<"e", "x", "p", "o", "r", "t">>, token |-> "Export"],
       [str |-> <<"f", "a", "l", "s", "e">>, token |-> "False"],
       [str |-> <<"f", "i", "n", "a", "l", "l", "y">>, token |-> "Finally"],
       [str |-> <<"f", "o", "r">>, token |-> "For"],
       [str |-> <<"f", "r", "o", "m">>, token |-> "From"],
       [str |-> <<"i", "f">>, token |-> "If"],
       [str |-> <<"i", "m", "p", "o", "r", "t">>, token |-> "Import"],
       [str |-> <<"i", "n">>, token |-> "In"],
       [str |-> <<"l", "o", "o", "p">>, token |-> "Loop"],
       [str |-> <<"m", "a", "t", "c", "h">>, token |-> "Match"],
       [str |-> <<"n", "o", "t">>, token |-> "Not"],
       [str |-> <<"n", "u", "l", "l">>, token |-> "Null"],
       [str |-> <<"o", "r">>, token |-> "Or"],
       [str |-> <<"r", "e", "t", "u", "r", "n">>, token |-> "Return"],
       [str |-> <<"s", "e", "l", "f">>, token |-> "Self_"],
       [str |-> <<"s", "w", "i", "t", "c", "h">>, token |-> "Switch"],
       [str |-> <<"t", "h", "e", "n">>, token |-> "Then"],
       [str |-> <<"t", "h", "r", "o", "w">>, token |-> "Throw"],
       [str |-> <<"t", "r", "u", "e">>, token |-> "True"],
       [str |-> <<"t", "r", "y">>, token |-> "Try"],
       [str |-> <<"u", "n", "t", "i", "l">>, token |-> "Until"],
       [str |-> <<"w", "h", "i", "l", "e">>, token |-> "While"],
       [str |-> <<"y", "i", "e", "l", "d">>, token |-> "Yield"] >>

\* the table entries whose keyword is id (at most one)
KeywordMatches(id) == {k \in 1..Len(Keywords) : Keywords[k].str = id}

\* whether the keyword table is consulted at all
KeywordsChecked(L) == L.previous_token # "Dot"

consume_id_or_keyword(L, src, i) ==
    LET r == consume_and_count_utf8(src, i + 1, "is_id_continue")
        char_bytes == len_utf8(src[i]) + r.char_bytes
        char_count == 1 + r.char_count
        id == SubSeq(src, i, i + r.n)
        hits == KeywordMatches(id)
    IN  CASE id = <<"e", "l", "s", "e">> ->
               IF StartsWith(src, i, <<"e", "l", "s", "e", " ", "i", "f">>)
               THEN Res("ElseIf", advance_line(L, 7))
               ELSE Res("Else", advance_line(L, 4))
          [] id = <<"r">> /\ QuoteOf(CharAt(src, i + 1)) # "NoQuote" ->
               LET quote == QuoteOf(CharAt(src, i + 1))
               IN  Res(StringStart(quote, TRUE),
                       WithStack(advance_line(L, 2),
                                 Push(L.string_mode_stack, RawStart(quote))))
          [] OTHER ->
               IF KeywordsChecked(L) /\ hits # {}
               THEN LET k == CHOOSE k \in hits : TRUE
                    IN  Res(Keywords[k].token, advance_line(L, Len(Keywords[k].str)))
               ELSE Res("Id", advance_line_utf8(L, char_bytes, char_count))

consume_wildcard(L, src, i) ==
    LET r == consume_and_count_utf8(src, i + 1, "is_id_continue")
    IN  Res("Wildcard",
            advance_line_utf8(L, len_utf8(src[i]) + r.char_bytes, 1 + r.char_count))

\* the check_symbol! table of consume_symbol, in its order
Symbols ==
    << [str |-> <<".", ".", ".">>, token |-> "Ellipsis"],
       [str |-> <<".", ".", "=">>, token |-> "RangeInclusive"],
       [str |-> <<".", ".">>, token |-> "Range"],
       [str |-> <<">", ">">>, token |-> "Pipe"],
       [str |-> <<"=", "=">>, token |-> "Equal"],
       [str |-> <<"!", "=">>, token |-> "NotEqual"],
       [str |-> <<">", "=">>, token |-> "GreaterOrEqual"],
       [str |-> <<"<", "=">>, token |-> "LessOrEqual"],
       [str |-> <<">">>, token |-> "Greater"],
       [str |-> <<"<">>, token |-> "Less"],
       [str |-> <<"=">>, token |-> "Assign"],
       [str |-> <<"+", "=">>, token |-> "AddAssign"],
       [str |-> <<"-", "=">>, token |-> "SubtractAssign"],
       [str |-> <<"*", "=">>, token |-> "MultiplyAssign"],
       [str |-> <<"/", "=">>, token |-> "DivideAssign"],
       [str |-> <<"%", "=">>, token |-> "RemainderAssign"],
       [str |-> <<"+">>, token |-> "Add"],
       [str |-> <<"-">>, token |-> "Subtract"],
       [str |-> <<"*">>, token |-> "Multiply"],
       [str |-> <<"/">>, token |-> "Divide"],
       [str |-> <<"%">>, token |-> "Remainder"],
       [str |-> <<"@">>, token |-> "At"],
       [str |-> <<":">>, token |-> "Colon"],
       [str |-> <<",">>, token |-> "Comma"],
       [str |-> <<".">>, token |-> "Dot"],
       [str |-> <<"(">>, token |-> "RoundOpen"],
       [str |-> <<")">>, token |-> "RoundClose"],
       [str |-> <<"|">>, token |-> "Function"],
       [str |-> <<"[">>, token |-> "SquareOpen"],
       [str |-> <<"]">>, token |-> "SquareClose"],
       [str |-> <<"{">>, token |-> "CurlyOpen"],
       [str |-> <<"}">>, token |-> "CurlyClose"] >>

\* the entries of the table that the remaining source starts with
SymbolHits(src, i) == {k \in 1..Len(Symbols) : StartsWith(src, i, Symbols[k].str)}

\* check_symbol!: the token of a table entry, its length consumed
SymbolToken(L, entry) == Res(entry.token, advance_line(L, Len(entry.str)))

\* the checks are made in the table's order: the first entry that hits wins
SymbolAmong(L, hits) ==
    IF hits = {}
    THEN Res(NoToken, L)
    ELSE SymbolToken(L, Symbols[CHOOSE k \in hits : \A h \in hits : k <= h])

\* consume_symbol: the first table entry the remaining source starts with;
\* a token of "None" stands for the None it returns otherwise
consume_symbol(L, src, i) == SymbolAmong(L, SymbolHits(src, i))

\* the result s of consume_symbol, or the Error made of one byte when it is None
OrError(s, L) == IF s.token = NoToken THEN Res("Error", advance_line(L, 1)) ELSE s

\* the string mode pushed or popped when the token of r is a curly brace
BraceModes(r, string_mode) ==
    CASE r.token = "CurlyOpen" /\ string_mode = TemplateExpression ->
           Res(r.token,
               WithStack(r.lx, Push(r.lx.string_mode_stack, TemplateExpressionInlineMap)))
      [] r.token = "CurlyClose"
         /\ string_mode \in {TemplateExpression, TemplateExpressionInlineMap} ->
           Res(r.token, WithStack(r.lx, Pop(r.lx.string_mode_stack)))
      [] OTHER -> r

\* get_next_token's arm for a character that starts no other kind of token:
\* a symbol or an Error, and the template expression's brace handling
SymbolOrError(L, src, i, string_mode) ==
    BraceModes(OrError(consume_symbol(L, src, i), L), string_mode)

\* get_next_token's arm for the Literal string mode
InLiteral(L, src, i, quote) ==
    LET next_char == src[i]
    IN  CASE QuoteOf(next_char) = quote ->
               Res("StringEnd", WithStack(advance_line(L, 1), Pop(L.string_mode_stack)))
          [] next_char = "$" ->
               Res("Dollar", WithStack(advance_line(L, 1),
                                       Push(L.string_mode_stack, TemplateStart)))
          [] OTHER -> consume_string_literal(L, src, i)

\* after '$': an Id ends the template, any other token r is an Error
TemplateId(r) ==
    IF r.token = "Id"
    THEN Res("Id", WithStack(r.lx, Pop(r.lx.string_mode_stack)))
    ELSE Res("Error", r.lx)

\* get_next_token's arm for the TemplateStart string mode
InTemplateStart(L, src, i) ==
    LET next_char == src[i]
    IN  CASE is_id_start(next_char) -> TemplateId(consume_id_or_keyword(L, src, i))
          [] next_char = "{" ->
               Res("CurlyOpen",
                   WithStack(advance_line(L, 1),
                             Push(Pop(L.string_mode_stack), TemplateExpression)))
          [] OTHER -> Res("Error", L)

\* get_next_token's arm for whitespace
ConsumeWhitespace(L, src, i) ==
    LET count == consume_and_count(src, i, "is_whitespace")
        L1 == advance_line(L, count)
    IN  Res("Whitespace",
            IF L.previous_token \in {"NewLine", NoToken}
            THEN [L1 EXCEPT !.indent = count]
            ELSE L1)

\* get_next_token's arm outside of the string modes
InCode(L, src, i, string_mode) ==
    LET next_char == src[i]
    IN  CASE is_whitespace(next_char) -> ConsumeWhitespace(L, src, i)
          [] next_char \in {"\r", "\n"} -> consume_newline(L, src, i)
          [] next_char = "#" -> consume_comment(L, src, i)
          [] next_char = "\"" ->
               Res(StringStart("Double", FALSE),
                   WithStack(advance_line(L, 1),
                             Push(L.string_mode_stack, Literal("Double"))))
          [] next_char = "'" ->
               Res(StringStart("Single", FALSE),
                   WithStack(advance_line(L, 1),
                             Push(L.string_mode_stack, Literal("Single"))))
          [] is_digit(next_char) -> consume_number(L, src, i)
          [] is_id_start(next_char) -> consume_id_or_keyword(L, src, i)
          [] next_char = "_" -> consume_wildcard(L, src, i)
          [] OTHER -> SymbolOrError(L, src, i, string_mode)

\* The indent reset at the head of get_next_token
ResetIndent(L) ==
    IF L.previous_token = "NewLine" THEN [L EXCEPT !.indent = 0] ELSE L

\* get_next_token's match on the string mode on top of the stack
InMode(L, src, i) ==
    LET string_mode == Top(L.string_mode_stack)
    IN  CASE string_mode.mode = "Literal" -> InLiteral(L, src, i, string_mode.quote)
          [] string_mode.mode = "RawStart" ->
               consume_raw_string_contents(L, src, i, string_mode.quote)
          [] string_mode.mode = "RawEnd" ->
               consume_raw_string_end(L, src, i, string_mode.quote)
          [] string_mode.mode = "TemplateStart" -> InTemplateStart(L, src, i)
          [] OTHER -> InCode(L, src, i, string_mode)

\* the tail of get_next_token: the token of r becomes previous_token
SetPreviousToken(r) == Res(r.token, [r.lx EXCEPT !.previous_token = r.token])

\* TokenLexer::get_next_token (Iterator::next): the token, "None" for None,
\* and the lexer afterwards
get_next_token(L, src) ==
    LET i == CharIndexAt(src, L.current_byte)
    IN  IF i = 0 \/ i > Len(src)
        THEN Res(NoToken, [L EXCEPT !.previous_token = NoToken])
        ELSE SetPreviousToken(InMode(ResetIndent(L), src, i))

(***************************************************************************)
(* KotoLexer                                                               *)
(***************************************************************************)

\* the LexedToken built by KotoLexer::next_token from the lexer's fields
LexedToken(tok, L) ==
    [token |-> tok,
     source_bytes |-> [start |-> L.previous_byte, end |-> L.current_byte],
     span |-> L.span,
     indent |-> L.indent]

\* stands for the None of an Option<LexedToken>
NoLexedToken ==
    [token |-> NoToken,
     source_bytes |-> [start |-> 0, end |-> 0],
     span |-> SpanDefault,
     indent |-> 0]

IsSome(t) == t.token # NoToken

\* the Option<LexedToken> made of the result r of get_next_token
Lexed(r) ==
    [tok |-> IF r.token = NoToken THEN NoLexedToken ELSE LexedToken(r.token, r.lx),
     lx |-> r.lx]

\* KotoLexer::next_token
next_token(L, src) == Lexed(get_next_token(L, src))

\* VecDeque::get(n)
QueueGet(queue, n) == IF n + 1 <= Len(queue) THEN queue[n + 1] ELSE NoLexedToken

RECURSIVE FillQueue(_, _, _, _)
\* one pass of the for loop of peek, with r the result of next_token
FillStep(r, src, queue, tokens_to_add) ==
    IF ~IsSome(r.tok)
    THEN [lx |-> r.lx, queue |-> queue, hang |-> FALSE]
    ELSE FillQueue(r.lx, src, Append(queue, r.tok), tokens_to_add - 1)

\* the for loop of peek: push up to tokens_to_add tokens, stop at None
FillQueue(L, src, queue, tokens_to_add) ==
    IF tokens_to_add = 0
    THEN [lx |-> L, queue |-> queue, hang |-> FALSE]
    ELSE FillStep(next_token(L, src), src, queue, tokens_to_add)

RECURSIVE FillQueueWrapped(_, _, _)
\* one pass of the loop below, with r the result of next_token
FillStepWrapped(r, L, src, queue) ==
    IF ~IsSome(r.tok)
    THEN [lx |-> r.lx, queue |-> queue, hang |-> FALSE]
    ELSE IF r.lx = L
    THEN [lx |-> L, queue |-> queue, hang |-> TRUE]
    ELSE FillQueueWrapped(r.lx, src, Append(queue, r.tok))

\* the same loop when tokens_to_add has wrapped around to nearly 2^64: it
\* only ends at None, and never ends once the lexer repeats a token without
\* changing its state
FillQueueWrapped(L, src, queue) == FillStepWrapped(next_token(L, src), L, src, queue)

Max(a, b) == IF a >= b THEN a ELSE b

\* tokens_to_add of peek, before the unsigned subtraction is made
tokens_to_add(token_queue_len, n) == token_queue_len + 1 - Max(n, token_queue_len)

\* Iterator::next of KotoLexer
\* next() with an empty queue: the result r of next_token, the queue kept
Scan(r, queue) == [tok |-> r.tok, lx |-> r.lx, queue |-> queue]

\* A faulty next() that scans on without draining the queue: the stream
\* being unchanged by peek (C2) depends on the queue being drained first.
KotoNext_skipping_queue(L, src, queue) == Scan(next_token(L, src), queue)

KotoNext(L, src, queue) ==
    IF queue # <<>>
    THEN [tok |-> Head(queue), lx |-> L, queue |-> Tail(queue)]
    ELSE Scan(next_token(L, src), queue)

RECURSIVE Drain(_, _, _)
\* the token of r, the result of next_token, and those that follow it
DrainStep(r, src, k) ==
    IF IsSome(r.tok) THEN <<r.tok>> \o Drain(r.lx, src, k - 1) ELSE <<>>

\* the tokens a TokenLexer in state L yields through next_token, at most k
Drain(L, src, k) == IF k = 0 THEN <<>> ELSE DrainStep(next_token(L, src), src, k)

(***************************************************************************)
(* KTuple                                                                  *)
(*                                                                         *)
(* The shared Vec<KValue> is given by its length; the element stored at    *)
(* index i is named by i, so a slice is known by its bounds.               *)
(***************************************************************************)

\* u16::MAX, the largest bound a TupleSlice16 holds
U16Max == 65535

\* a KTuple: the variant of Inner, and the bounds it carries
Tuple(inner, start, end) == [inner |-> inner, start |-> start, end |-> end]

\* From<Vec<KValue>> for KTuple
FullTuple(len) == Tuple("Full", 0, len)

\* stands for the None of an Option<KTuple>
NoTuple == Tuple("None", 0, 0)

\* usize_to_u16_range(..).is_some()
FitsU16(start, end) == start <= U16Max /\ end <= U16Max

\* From<TupleSlice> for KTuple: a Slice16 when the bounds fit, else a Slice
TupleFromSlice(start, end) ==
    IF FitsU16(start, end) THEN Tuple("Slice16", start, end) ELSE Tuple("Slice", start, end)

\* the TupleSlice that make_sub_tuple and Deref build from a tuple
AsSlice(t, len) ==
    IF t.inner = "Full" THEN [start |-> 0, end |-> len] ELSE [start |-> t.start, end |-> t.end]

\* Deref: the length of the slice of the shared vector that the tuple shows
TupleLen(t, len) == AsSlice(t, len).end - AsSlice(t, len).start

\* <[KValue]>::get(range).is_some() on a slice of view_len elements
SliceGetIsSome(view_len, start, end) == start <= end /\ end <= view_len

\* a bounds check that only compares the end with the end of the slice
SubTupleInBounds_end_only(slice, new_start, new_end) == new_end <= slice.end

\* the bounds check of make_sub_tuple: slice.get(..) is made through
\* TupleSlice's Deref, on the elements the slice shows
SubTupleInBounds(slice, new_start, new_end) ==
    /\ new_end <= slice.end
    /\ SliceGetIsSome(slice.end - slice.start, new_start, new_end)

make_sub_tuple(t, len, s, e) ==
    LET slice == AsSlice(t, len)
        new_start == s + slice.start
        new_end == e + slice.start
    IN  IF SubTupleInBounds(slice, new_start, new_end)
        THEN TupleFromSlice(new_start, new_end)
        ELSE NoTuple

\* a pop_front that takes the first element of the vector, whatever the
\* bounds of the tuple
pop_front_ignoring_bounds(t, len) ==
    IF TupleLen(t, len) = 0
    THEN [tuple |-> t, value |-> -1]
    ELSE [tuple |-> TupleFromSlice(1, len), value |-> 0]

\* pop_front: the tuple afterwards, and the index of the value returned (-1 for None)
pop_front(t, len) ==
    IF TupleLen(t, len) = 0
    THEN [tuple |-> t, value |-> -1]
    ELSE CASE t.inner = "Full" -> [tuple |-> TupleFromSlice(1, len), value |-> 0]
           [] OTHER -> [tuple |-> [t EXCEPT !.start = t.start + 1], value |-> t.start]

\* a pop_back that takes the last element of the vector, whatever the
\* bounds of the tuple
pop_back_ignoring_bounds(t, len) ==
    IF TupleLen(t, len) = 0
    THEN [tuple |-> t, value |-> -1]
    ELSE [tuple |-> TupleFromSlice(0, len - 1), value |-> len - 1]

\* pop_back: the tuple afterwards, and the index of the value returned (-1 for None)
pop_back(t, len) ==
    IF TupleLen(t, len) = 0
    THEN [tuple |-> t, value |-> -1]
    ELSE CASE t.inner = "Full" -> [tuple |-> TupleFromSlice(0, len - 1), value |-> len - 1]
           [] OTHER -> [tuple |-> [t EXCEPT !.end = t.end - 1], value |-> t.end - 1]

\* a second handle on the storage: the tuple, and whether it and the tuple
\* under test hold the same Ptr<TupleSlice> (two clones of an Inner::Slice)
Kept(t, aliased) == [tuple |-> t, aliased |-> aliased]

\* #[derive(Clone)] of KTuple: Inner::Slice clones the Ptr, not the TupleSlice
KTupleClone(t) == Kept(t, t.inner = "Slice")

\* a pop that writes the bounds through the shared Ptr<TupleSlice>
SliceMakeMut_in_place(k, after) == IF k.aliased THEN Kept(after, TRUE) ELSE k

\* Ptr::make_mut(slice).bounds in pop_front and pop_back: a TupleSlice that
\* another tuple holds as well is cloned before its bounds are changed, so
\* the other tuple k keeps its bounds and no longer shares the Ptr
SliceMakeMut(k, after) == IF k.aliased THEN Kept(k.tuple, FALSE) ELSE k

\* The other tuple k once the tuple under test has gone from before to
\* after: a pop of an Inner::Slice goes through make_mut, a pop of an
\* Inner::Slice16 changes bounds stored in the tuple itself, and every
\* other change assigns a newly built tuple.
KeptAfter(k, before, after) ==
    CASE before = after -> k
      [] before.inner = "Slice" /\ after.inner = "Slice" -> SliceMakeMut(k, after)
      [] OTHER -> Kept(k.tuple, FALSE)

(***************************************************************************)
(* Bounds and inputs                                                       *)
(***************************************************************************)

\* the longest source, in pieces, given to a lexer that is also peeked
MaxPieces == 3

\* the longest source, in pieces, given to a lexer that is only iterated
MaxLexPieces == 3

\* the longest source, in pieces, of the template expression sources
MaxBracePieces == 5

\* the longest source, in pieces, given to a lexer that is iterated for ever
MaxLoopPieces == 3

\* the longest source, in pieces, of the indentation sources
MaxIndentPieces == 4

\* the largest n given to peek
MaxPeek == 3

\* the most tokens the scanner is asked for in one run
MaxTokens == 7

\* the most operations made on one tuple
MaxTupleOps == 3

\* the longest expression, in pieces, put inside a template expression
MaxExprPieces == 4

\* the most tokens the scanner is asked for in one run over a string source
MaxStrTokens == 14

\* the longest text, in pieces, of a string inside a template expression
MaxInnerPieces == 3

\* pieces per text after the opening of a raw string
MaxRawPieces == 3

\* pieces per text after the opening quote of a string
MaxEscPieces == 4

\* pieces per source of the line counting
MaxLinePieces == 4

\* pieces per text after the opening of a multi-line comment
MaxCommentPieces == 4

\* pieces per text after the dot of a number
MaxNumPieces == 4

\* pieces per source of a lexer that is cloned
MaxClonePieces == 2

\* tokens returned by each of a lexer and its clone
MaxCloneTokens == 3

\* the furthest peek made on a lexer and its clone
MaxClonePeek == 1

\* pieces per source of the else-if lexing
MaxElsePieces == 4

RECURSIVE Concats(_, _)
\* every concatenation of at most n pieces of P
Concats(P, n) ==
    IF n = 0
    THEN {<<>>}
    ELSE LET shorter == Concats(P, n - 1)
         IN  shorter \cup {s \o p : s \in shorter, p \in P}

PeekPieces == {<<"x">>, <<" ">>, <<"\n">>, <<".">>, <<"\"">>, <<"$">>}

LexPieces ==
    {<<"x">>, <<" ">>, <<"\n">>, <<"\r">>, <<".">>, <<"\"">>, <<"$">>, <<"{">>,
     <<"#", "-">>, <<"-", "#">>, <<"1">>, <<"e", "l", "s", "e">>,
     <<"r", "'">>, <<"U+4E2D">>, <<"U+20AC">>, <<"\\">>}

BracePieces == {<<"\"", "$", "{">>, <<"{">>, <<"}">>, <<"x">>}

\* a keyword, or "else", alone, after a dot, and before or after other text
KeywordSources ==
    {before \o word \o after :
        before \in {<<>>, <<".">>, <<"x", ".">>, <<"\"", "$">>},
        word \in {Keywords[k].str : k \in 1..Len(Keywords)} \cup {<<"e", "l", "s", "e">>},
        after \in {<<>>, <<" ", "i", "f">>, <<"x">>, <<"(", ")">>}}

PeekSources == Concats(PeekPieces, MaxPieces)

LexSources == Concats(LexPieces, MaxLexPieces) \cup KeywordSources

BraceSources == Concats(BracePieces, MaxBracePieces)

LoopPieces ==
    {<<"x">>, <<" ">>, <<"\n">>, <<"\r">>, <<"\"">>, <<"$">>, <<"r", "'">>, <<"#", "-">>,
     <<"U+20AC">>}

LoopSources == Concats(LoopPieces, MaxLoopPieces)

IndentPieces == {<<" ">>, <<"\n">>, <<"x">>, <<"\"">>, <<"#", "-">>, <<"-", "#">>}

IndentSources == Concats(IndentPieces, MaxIndentPieces)

RECURSIVE BraceDepth(_, _)
\* the number of "{" still open after the first k characters of s, or -1
\* once a "}" has come without a "{" to close
BraceDepth(s, k) ==
    IF k = 0
    THEN 0
    ELSE LET d == BraceDepth(s, k - 1)
         IN  CASE d < 0 -> -1
               [] s[k] = "{" -> d + 1
               [] s[k] = "}" -> d - 1
               [] OTHER -> d

ExprPieces == {<<"x">>, <<" ">>, <<"+">>, <<"{">>, <<"}">>}

\* expressions with balanced braces that lex without Error outside a string
TemplateExprs ==
    {e \in Concats(ExprPieces, MaxExprPieces) \cup {<<"x", " ", "+", " ", "y">>} :
        /\ BraceDepth(e, Len(e)) = 0
        /\ \A k \in 1..Len(Drain(TokenLexerNew, e, MaxStrTokens)) :
               Drain(TokenLexerNew, e, MaxStrTokens)[k].token # "Error"}

\* the text before the template expression
TemplateLits == {<<>>, <<"x">>, <<"x", " ", "+", " ", "y", " ", "=", "=", " ">>}

\* "lit${expr}"
TemplateSource(lit, expr) == <<"\"">> \o lit \o <<"$", "{">> \o expr \o <<"}", "\"">>

TemplateSources == {TemplateSource(lit, e) : lit \in TemplateLits, e \in TemplateExprs}

InnerPieces == {<<"{">>, <<"}">>, <<"x">>, <<" ">>}

\* q1 ${ pre q2 inner q2 post } q1: a string inside a template expression
InnerStringSources ==
    {<<q1, "$", "{">> \o pre \o <<q2>> \o inner \o <<q2>> \o post \o <<"}", q1>> :
        q1 \in {"\"", "'"},
        pre \in {<<>>, <<"x">>},
        q2 \in {"\"", "'"},
        inner \in Concats(InnerPieces, MaxInnerPieces),
        post \in {<<>>, <<".", "x">>, <<" ", "x">>, <<".", "f", " ", "f", "o", "o">>}}

\* lengths of the shared vector, and offsets into it, around 0 and u16::MAX
DataLens == {0, 1, 4, U16Max, U16Max + 3}

Offsets == {0, 1, 2, 3, 4, U16Max - 1, U16Max, U16Max + 1, U16Max + 3}

(***************************************************************************)
(* The state machine                                                       *)
(***************************************************************************)

NoCall == [op |-> "none", n |-> 0, res |-> NoLexedToken]

\* a clone that copies the TokenLexer and starts with an empty queue
KotoLexerClone_without_queue(L, queue) == [lexer |-> L, token_queue |-> <<>>]

\* #[derive(Clone)] of KotoLexer: the TokenLexer, its string_mode_stack
\* included, and the token_queue are cloned field by field
KotoLexerClone(L, queue) == [lexer |-> L, token_queue |-> queue]

\* no clone has been taken
NoCopy ==
    [taken |-> FALSE, at |-> 0, lexer |-> TokenLexerNew, token_queue |-> <<>>,
     out |-> <<>>, last |-> NoCall]

NoTupleOp ==
    [op |-> "none", s |-> 0, e |-> 0, before |-> NoTuple, res |-> NoTuple,
     value |-> -1, ops |-> 0]

\* no text has been given to the formatter
NoFormat == [text |-> <<>>, line_length |-> 0, input |-> <<>>, pass |-> 0]

\* a DisplayContext in which nothing is being rendered
NoDisplay ==
    [containers |-> <<>>, text |-> <<>>, before |-> <<>>, id |-> 0, values |-> <<>>,
     res |-> "none"]

\* no byte has been converted
NoMetaKey == [byte |-> 0, res |-> "none", key |-> "none", err |-> 0]

\* no error message
NoError == [format |-> "", args |-> <<>>]

\* no builtin has been called
NoFnCall ==
    [map |-> "none", fn |-> "none", expected |-> "none", args |-> <<>>,
     res |-> "none", ran |-> FALSE, error |-> NoError]

\* no host object has been made
NoObjects ==
    [heap |-> <<>>, env |-> [v \in {"x", "y", "z"} |-> 0], op |-> "none", var |-> "none",
     with |-> [method |-> "none", arg |-> 0], steps |-> 0]

\* no expression has been piped
NoPipe == [lhs |-> 0, chain |-> <<>>, piped |-> FALSE, res |-> <<>>]

LexerIdle ==
    /\ source = <<>>
    /\ lexer = TokenLexerNew
    /\ token_queue = <<>>
    /\ out = <<>>
    /\ last = NoCall
    /\ pc = "run"
    /\ tick = 0
    /\ copy = NoCopy

TupleIdle ==
    /\ data = 0
    /\ tup = FullTuple(0)
    /\ kept = Kept(NoTuple, FALSE)
    /\ tlast = NoTupleOp

\* KotoLexer::new(source) for a source of the set S
InitLexer(S) ==
    /\ source \in S
    /\ lexer = TokenLexerNew
    /\ token_queue = <<>>
    /\ out = <<>>
    /\ last = NoCall
    /\ pc = "run"
    /\ tick = 0
    /\ copy = NoCopy
    /\ TupleIdle
    /\ fmt = NoFormat
    /\ pipe = NoPipe
    /\ ctx = NoDisplay
    /\ meta = NoMetaKey
    /\ fncall = NoFnCall
    /\ objs = NoObjects

\* the tokens the scanner has been asked for and has returned
Scanned == Len(out) + Len(token_queue)

\* lexer.next(), recording the token it returns, while fewer than max
\* tokens have been returned
NextTokUpTo(max) ==
    /\ pc = "run"
    /\ Len(out) < max
    /\ \E r \in {KotoNext(lexer, source, token_queue)} :
           /\ lexer' = r.lx
           /\ token_queue' = r.queue
           /\ out' = IF IsSome(r.tok) THEN Append(out, r.tok) ELSE out
           /\ last' = [op |-> "next", n |-> 0, res |-> r.tok]
    /\ UNCHANGED <<source, pc, tick, copy, tupvars, fmt, pipe, ctx, hostvars>>

NextTok == NextTokUpTo(MaxTokens)

\* lexer.next() over the longer token streams of the string sources
NextStrTok == NextTokUpTo(MaxStrTokens)

\* lexer.peek(n)
Peek(n) ==
    /\ pc = "run"
    /\ Scanned < MaxTokens
    /\ LET k == tokens_to_add(Len(token_queue), n)
       IN  IF k >= 0
           THEN \E r \in {FillQueue(lexer, source, token_queue, k)} :
                    /\ lexer' = r.lx
                    /\ token_queue' = r.queue
                    /\ last' = [op |-> "peek", n |-> n, res |-> QueueGet(r.queue, n)]
                    /\ pc' = "run"
           ELSE \* the subtraction overflows: a panic where overflow is checked,
                \* a wrapped count where it is not
                \/ /\ pc' = "panic"
                   /\ last' = [op |-> "peek", n |-> n, res |-> NoLexedToken]
                   /\ UNCHANGED <<lexer, token_queue>>
                \/ \E r \in {FillQueueWrapped(lexer, source, token_queue)} :
                       /\ lexer' = r.lx
                       /\ token_queue' = r.queue
                       /\ pc' = IF r.hang THEN "hang" ELSE "run"
                       /\ last' = [op |-> "peek", n |-> n,
                                   res |-> IF r.hang THEN NoLexedToken
                                           ELSE QueueGet(r.queue, n)]
    /\ UNCHANGED <<source, out, tick, copy, tupvars, fmt, pipe, ctx, hostvars>>

\* lexer.next() in a loop that keeps no record of the tokens
Iterate ==
    /\ pc = "run"
    /\ \E r \in {KotoNext(lexer, source, token_queue)} :
           /\ lexer' = r.lx
           /\ token_queue' = r.queue
           /\ last' = [op |-> "next", n |-> 0, res |-> r.tok]
    /\ tick' = 1 - tick
    /\ UNCHANGED <<source, out, pc, copy, tupvars, fmt, pipe, ctx, hostvars>>

\* tup = tup.make_sub_tuple(s..e), keeping tup when the result is None
MakeSubTuple(s, e) ==
    /\ tlast.ops < MaxTupleOps
    /\ LET r == make_sub_tuple(tup, data, s, e)
       IN  /\ tup' = IF r = NoTuple THEN tup ELSE r
           /\ kept' = IF r = NoTuple THEN kept ELSE Kept(kept.tuple, FALSE)
           /\ tlast' = [op |-> "make_sub_tuple", s |-> s, e |-> e, before |-> tup,
                        res |-> r, value |-> -1, ops |-> tlast.ops + 1]
    /\ UNCHANGED <<data, lexvars, fmt, pipe, ctx, hostvars>>

PopFront ==
    /\ tlast.ops < MaxTupleOps
    /\ LET r == pop_front(tup, data)
       IN  /\ tup' = r.tuple
           /\ kept' = KeptAfter(kept, tup, r.tuple)
           /\ tlast' = [op |-> "pop_front", s |-> 0, e |-> 0, before |-> tup,
                        res |-> r.tuple, value |-> r.value, ops |-> tlast.ops + 1]
    /\ UNCHANGED <<data, lexvars, fmt, pipe, ctx, hostvars>>

PopBack ==
    /\ tlast.ops < MaxTupleOps
    /\ LET r == pop_back(tup, data)
       IN  /\ tup' = r.tuple
           /\ kept' = KeptAfter(kept, tup, r.tuple)
           /\ tlast' = [op |-> "pop_back", s |-> 0, e |-> 0, before |-> tup,
                        res |-> r.tuple, value |-> r.value, ops |-> tlast.ops + 1]
    /\ UNCHANGED <<data, lexvars, fmt, pipe, ctx, hostvars>>

\* let copy = lexer.clone(), taken once, in any state of the lexer
Clone ==
    /\ pc = "run"
    /\ ~copy.taken
    /\ \E c \in {KotoLexerClone(lexer, token_queue)} :
           copy' = [taken |-> TRUE, at |-> Len(out), lexer |-> c.lexer,
                    token_queue |-> c.token_queue, out |-> <<>>, last |-> NoCall]
    /\ UNCHANGED <<source, lexer, token_queue, out, last, pc, tick, tupvars, fmt, pipe, ctx, hostvars>>

\* copy.next(), recording the token it returns
CopyNext ==
    /\ pc = "run"
    /\ copy.taken
    /\ Len(copy.out) < MaxCloneTokens
    /\ \E r \in {KotoNext(copy.lexer, source, copy.token_queue)} :
           copy' = [copy EXCEPT !.lexer = r.lx,
                                !.token_queue = r.queue,
                                !.out = IF IsSome(r.tok) THEN Append(@, r.tok) ELSE @,
                                !.last = [op |-> "next", n |-> 0, res |-> r.tok]]
    /\ UNCHANGED <<source, lexer, token_queue, out, last, pc, tick, tupvars, fmt, pipe, ctx, hostvars>>

\* copy.peek(n)
CopyPeek(n) ==
    /\ pc = "run"
    /\ copy.taken
    /\ Len(copy.out) + Len(copy.token_queue) < MaxCloneTokens
    /\ \E k \in {tokens_to_add(Len(copy.token_queue), n)} :
           IF k >= 0
           THEN \E r \in {FillQueue(copy.lexer, source, copy.token_queue, k)} :
                    /\ copy' = [copy EXCEPT !.lexer = r.lx,
                                            !.token_queue = r.queue,
                                            !.last = [op |-> "peek", n |-> n,
                                                      res |-> QueueGet(r.queue, n)]]
                    /\ pc' = "run"
           ELSE \/ /\ pc' = "panic"
                   /\ copy' = copy
                \/ \E r \in {FillQueueWrapped(copy.lexer, source, copy.token_queue)} :
                       /\ copy' = [copy EXCEPT !.lexer = r.lx,
                                               !.token_queue = r.queue,
                                               !.last = [op |-> "peek", n |-> n,
                                                         res |-> IF r.hang THEN NoLexedToken
                                                                 ELSE QueueGet(r.queue, n)]]
                       /\ pc' = IF r.hang THEN "hang" ELSE "run"
    /\ UNCHANGED <<source, lexer, token_queue, out, last, tick, tupvars, fmt, pipe, ctx, hostvars>>

\* kept = tup.clone()
KeepClone ==
    /\ tlast.ops < MaxTupleOps
    /\ kept' = KTupleClone(tup)
    /\ UNCHANGED <<data, tup, tlast, lexvars, fmt, pipe, ctx, hostvars>>

\* the calls that follow are made on the other of the two tuples
SwapTuples ==
    /\ tlast.ops < MaxTupleOps
    /\ kept.tuple # NoTuple
    /\ kept.tuple # tup
    /\ tup' = kept.tuple
    /\ kept' = Kept(tup, kept.aliased)
    /\ UNCHANGED <<data, tlast, lexvars, fmt, pipe, ctx, hostvars>>

\* a lexer that is iterated and peeked
Init == InitLexer(PeekSources)

Next == NextTok \/ \E n \in 0..MaxPeek : Peek(n)

Spec == Init /\ [][Next]_vars

\* a lexer that is only iterated
\* sources made of the words and separators of an if / else if / else chain
ElsePieces ==
    {<<"e", "l", "s", "e">>, <<"i", "f">>, <<" ">>, <<"\n">>, <<"x">>, <<".">>}

ElseSources == Concats(ElsePieces, MaxElsePieces)

SpecElse == InitLexer(ElseSources) /\ [][NextTok]_vars

\* the openings r' and r" of a raw string, each followed by a text of
\* quotes, "$", backslashes, braces, line breaks and carriage returns
RawPieces ==
    {<<"'">>, <<"\"">>, <<"$">>, <<"\\">>, <<"x">>, <<"{">>, <<"\n">>, <<"\r">>}

RawSources ==
    {<<"r", q>> \o t : q \in {"'", "\""}, t \in Concats(RawPieces, MaxRawPieces)}

SpecRaw == InitLexer(RawSources) /\ [][NextTok]_vars

\* an opening quote followed by a text of backslashes, "$", both quotes,
\* letters, line breaks and carriage returns
EscPieces == {<<"\\">>, <<"$">>, <<"'">>, <<"\"">>, <<"x">>, <<"\n">>, <<"\r">>}

EscSources == {<<q>> \o t : q \in {"'", "\""}, t \in Concats(EscPieces, MaxEscPieces)}

SpecEsc == InitLexer(EscSources) /\ [][NextTok]_vars

\* lines ended by "\n" and "\r\n", with words, numbers, strings and
\* multi-line comments that may hold line breaks
LinePieces ==
    {<<"\n">>, <<"\r", "\n">>, <<"\r">>, <<"x">>, <<"1">>, <<"\"">>, <<"#", "-">>, <<"-", "#">>}

LineSources == Concats(LinePieces, MaxLinePieces)

SpecLines == InitLexer(LineSources) /\ [][NextTok]_vars

\* the opening "#-" of a multi-line comment followed by a text of "#", "-",
\* letters, spaces and line breaks
CommentPieces == {<<"#">>, <<"-">>, <<"x">>, <<" ">>, <<"\n">>, <<"\r", "\n">>}

CommentSources == {<<"#", "-">> \o t : t \in Concats(CommentPieces, MaxCommentPieces)}

SpecComment == InitLexer(CommentSources) /\ [][NextTok]_vars

\* a digit and a dot followed by a text of digits, "e", signs, letters,
\* spaces and dots
NumPieces == {<<"0">>, <<"e">>, <<"+">>, <<"-">>, <<"x">>, <<" ">>, <<".">>}

NumSources ==
    {<<d, ".">> \o t : d \in {"0", "1", "9"}, t \in Concats(NumPieces, MaxNumPieces)}

SpecNum == InitLexer(NumSources) /\ [][NextTok]_vars

\* sources that leave the lexer in code, in a string, after "$" and in a
\* template expression
ClonePieces == {<<"x">>, <<"\"">>, <<"\"", "$", "{">>, <<"}">>}

CloneSources == Concats(ClonePieces, MaxClonePieces)

\* a lexer and a clone of it, each iterated and peeked
NextClone ==
    \/ NextTokUpTo(MaxCloneTokens)
    \/ \E n \in 0..MaxClonePeek : Scanned < MaxCloneTokens /\ Peek(n)
    \/ Clone
    \/ CopyNext
    \/ \E n \in 0..MaxClonePeek : CopyPeek(n)

SpecClone == InitLexer(CloneSources) /\ [][NextClone]_vars

InitLex == InitLexer(LexSources)

NextLex == NextTok

SpecLex == InitLex /\ [][NextLex]_vars

\* a lexer that is iterated for ever; the loop calling next() is always run
NextLoop == Iterate

InitLoop == InitLexer(LoopSources)

\* The steps that change tick are the calls of Iterate, which is enabled while
\* pc = "run": the loop is fair when it keeps making them.
LoopRuns == pc = "run" /\ tick' = 1 - tick

SpecLoop == InitLoop /\ [][NextLoop]_vars /\ WF_tick(LoopRuns)

\* a lexer iterated over template expressions
InitBrace == InitLexer(BraceSources)

SpecBrace == InitBrace /\ [][NextLex]_vars

\* a lexer iterated over indented lines, comments and strings
InitIndent == InitLexer(IndentSources)

SpecIndent == InitIndent /\ [][NextLex]_vars

NextStr == NextStrTok

\* a lexer iterated over strings that hold one template expression
InitTemplate == InitLexer(TemplateSources)

SpecTemplate == InitTemplate /\ [][NextStr]_vars

\* a lexer iterated over template expressions that hold a string
InitInner == InitLexer(InnerStringSources)

SpecInner == InitInner /\ [][NextStr]_vars

\* a tuple that is sliced and popped
InitTuple ==
    /\ data \in DataLens
    /\ tup = FullTuple(data)
    /\ kept = Kept(NoTuple, FALSE)
    /\ tlast = NoTupleOp
    /\ LexerIdle
    /\ fmt = NoFormat
    /\ pipe = NoPipe
    /\ ctx = NoDisplay
    /\ meta = NoMetaKey
    /\ fncall = NoFnCall
    /\ objs = NoObjects

NextTuple ==
    \/ \E s \in Offsets, e \in Offsets : MakeSubTuple(s, e)
    \/ PopFront
    \/ PopBack

SpecTuple == InitTuple /\ [][NextTuple]_vars

\* lengths of the shared vector, and offsets into it, of two tuples on it
ShareLens == {1, 4, U16Max + 3}

ShareOffsets == {0, 1, 3, U16Max + 1}

InitShare ==
    /\ data \in ShareLens
    /\ tup = FullTuple(data)
    /\ kept = Kept(NoTuple, FALSE)
    /\ tlast = NoTupleOp
    /\ LexerIdle
    /\ fmt = NoFormat
    /\ pipe = NoPipe
    /\ ctx = NoDisplay
    /\ meta = NoMetaKey
    /\ fncall = NoFnCall
    /\ objs = NoObjects

\* two tuples on one storage, each sliced and popped
NextShare ==
    \/ \E s \in ShareOffsets, e \in ShareOffsets : MakeSubTuple(s, e)
    \/ PopFront
    \/ PopBack
    \/ KeepClone
    \/ SwapTuples

SpecShare == InitShare /\ [][NextShare]_vars

(***************************************************************************)
(* Properties                                                              *)
(***************************************************************************)

NoErrorIn(tokens) == \A k \in 1..Len(tokens) : tokens[k].token # "Error"

\* the last call was next() and it returned None
ReturnedNone == last.op = "next" /\ ~IsSome(last.res)

\* the tokens a fresh lexer yields from the source when it is never peeked
Reference == Drain(TokenLexerNew, source, MaxTokens + 1)

\* C1: as long as no Error token has been yielded, the byte ranges of the
\* tokens yielded are contiguous from byte 0 on, and when the stream ends
\* the last range ends at the length of the source.
C1_BytesContiguous ==
    NoErrorIn(out) =>
        /\ out # <<>> => out[1].source_bytes.start = 0
        /\ \A k \in 1..Len(out) : out[k].source_bytes.start <= out[k].source_bytes.end
        /\ \A k \in 2..Len(out) :
               out[k].source_bytes.start = out[k - 1].source_bytes.end
        /\ ReturnedNone =>
               IF out = <<>>
               THEN ByteLen(source) = 0
               ELSE out[Len(out)].source_bytes.end = ByteLen(source)

\* C1 witness: a source with a character of several bytes has been lexed to
\* its end, without Error, into three tokens or more
C1_Witness ==
    /\ ReturnedNone
    /\ NoErrorIn(out)
    /\ Len(out) >= 3
    /\ ByteLen(source) > Len(source)

\* C2: whatever peeks are made between the calls, the tokens next() has
\* returned are the first tokens of the stream of a lexer that is never
\* peeked, and next() returns None only at the end of that stream.
C2_PeekKeepsStream ==
    LET ref == Reference
    IN  /\ Len(out) <= Len(ref)
        /\ \A k \in 1..Len(out) : out[k] = ref[k]
        /\ ReturnedNone => Len(out) = Len(ref)

\* C2 witness: next() has just returned a token that a peek had buffered,
\* with further peeked tokens still in the queue
C2_Witness ==
    /\ last.op = "next"
    /\ IsSome(last.res)
    /\ Len(out) >= 2
    /\ Len(token_queue) >= 2

\* the token the k-th call of next() returns on a lexer that is never peeked
ReferenceAt(k) ==
    LET ref == Drain(TokenLexerNew, source, k)
    IN  IF Len(ref) >= k THEN ref[k] ELSE NoLexedToken

\* C3: a call of peek(n) that returns, returns the token that the (n+1)-th
\* following next() returns, and None exactly when fewer than n+1 tokens
\* remain.
C3_PeekReturnsNth ==
    (last.op = "peek" /\ pc = "run") =>
        last.res = ReferenceAt(Len(out) + last.n + 1)

\* C4: a call of next() that returns an Error token moves the lexer's byte
\* position forward.
C4_ErrorAdvances ==
    [][(last'.op = "next" /\ last'.res.token = "Error" /\ token_queue = <<>>)
          => lexer'.current_byte > lexer.current_byte]_vars

\* C5: a loop that calls next() eventually gets None.
C5_Terminates == <>ReturnedNone

\* whether two tuples over the shared vector show the same elements
SameElements(t1, t2) ==
    LET a == AsSlice(t1, data)
        b == AsSlice(t2, data)
    IN  \/ a = b
        \/ a.start = a.end /\ b.start = b.end

\* C6: after t.make_sub_tuple(a..b) with a <= b <= len(t), slicing the
\* result by c..d with c <= d <= b - a succeeds and shows the elements of
\* t.make_sub_tuple((a+c)..(a+d)).
C6_SliceComposes ==
    (/\ tlast.op = "make_sub_tuple"
     /\ tlast.s <= tlast.e
     /\ tlast.e <= TupleLen(tlast.before, data))
    => /\ tlast.res # NoTuple
       /\ \A c \in Offsets, d \in Offsets :
              (c <= d /\ d <= tlast.e - tlast.s) =>
                  LET second == make_sub_tuple(tlast.res, data, c, d)
                      direct == make_sub_tuple(tlast.before, data,
                                               tlast.s + c, tlast.s + d)
                  IN  /\ second # NoTuple
                      /\ direct # NoTuple
                      /\ SameElements(second, direct)

\* C7: make_sub_tuple(s..e) returns Some exactly when s <= e <= len(self),
\* and the result then shows the elements s..e of the tuple it was made from.
C7_SubTupleExact ==
    tlast.op = "make_sub_tuple" =>
        LET from == AsSlice(tlast.before, data)
            in_bounds == tlast.s <= tlast.e /\ tlast.e <= TupleLen(tlast.before, data)
        IN  /\ (tlast.res # NoTuple) <=> in_bounds
            /\ tlast.res # NoTuple =>
                   /\ tlast.res.start = from.start + tlast.s
                   /\ tlast.res.end = from.start + tlast.e

\* What is open after a token, given what was open before it: a string
\* ("str", "raw"), a "$" waiting for its identifier or brace ("dollar"), a
\* template expression ("tmpl"), or a brace opened inside one ("brace").
AfterToken(open, tok) ==
    LET top == IF open = <<>> THEN "none" ELSE open[Len(open)]
    IN  CASE tok \in {"StringStartDouble", "StringStartSingle"} -> Append(open, "str")
          [] tok \in {"StringStartDoubleRaw", "StringStartSingleRaw"} -> Append(open, "raw")
          [] tok = "StringEnd" /\ top \in {"str", "raw"} -> Pop(open)
          [] tok = "Dollar" -> Append(open, "dollar")
          [] tok = "CurlyOpen" /\ top = "dollar" -> Append(Pop(open), "tmpl")
          [] tok = "Id" /\ top = "dollar" -> Pop(open)
          [] tok = "CurlyOpen" /\ top \in {"tmpl", "brace"} -> Append(open, "brace")
          [] tok = "CurlyClose" /\ top \in {"tmpl", "brace"} -> Pop(open)
          [] OTHER -> open

RECURSIVE OpenAfter(_, _)
\* what is open after the first k tokens of out
OpenAfter(tokens, k) ==
    IF k = 0 THEN <<>> ELSE AfterToken(OpenAfter(tokens, k - 1), tokens[k].token)

\* C8: after a "}" the lexer is still inside the template expression when
\* the brace closed one opened inside it, and is back in the string's
\* Literal mode when the brace matches the "${".
C8_BracesBalanced ==
    (last.op = "next" /\ last.res.token = "CurlyClose" /\ NoErrorIn(out)) =>
        LET before == OpenAfter(out, Len(out) - 1)
            open == OpenAfter(out, Len(out))
            top == IF open = <<>> THEN "none" ELSE open[Len(open)]
            was == IF before = <<>> THEN "none" ELSE before[Len(before)]
            mode == Top(lexer.string_mode_stack).mode
        IN  /\ was = "brace" =>
                   mode \in {"TemplateExpression", "TemplateExpressionInlineMap"}
            /\ was = "tmpl" => mode = "Literal"

\* the index of the character that starts the line holding character i
LineStart(src, i) ==
    LET starts == {j \in 1..i : j = 1 \/ src[j - 1] = "\n"}
    IN  CHOOSE j \in starts : \A h \in starts : h <= j

\* the number of whitespace characters at the head of the line holding
\* the character that starts at byte b
LeadingWhitespace(src, b) ==
    CountWhile(src, LineStart(src, CharIndexAt(src, b)), "is_whitespace")

\* the words of the keyword table, and "else"
KeywordWords == {Keywords[k].str : k \in 1..Len(Keywords)} \cup {<<"e", "l", "s", "e">>}

\* the identifier-shaped word that starts at byte b of src
WordAt(src, b) ==
    LET i == CharIndexAt(src, b)
    IN  SubSeq(src, i, i + CountWhile(src, i + 1, "is_id_continue"))

\* C9: a keyword that follows a Dot token is emitted as one Id token.
C9_KeywordAfterDotIsId ==
    \A k \in 2..Len(out) :
        (/\ out[k - 1].token = "Dot"
         /\ out[k].source_bytes.start = out[k - 1].source_bytes.end
         /\ is_id_start(CharAt(source, CharIndexAt(source, out[k].source_bytes.start)))
         /\ WordAt(source, out[k].source_bytes.start) \in KeywordWords)
        => /\ out[k].token = "Id"
           /\ out[k].source_bytes.end
                = out[k].source_bytes.start
                  + Len(WordAt(source, out[k].source_bytes.start))

\* C10: the indent of every token is the number of whitespace characters
\* at the head of the line on which the token starts.
C10_IndentOfLine ==
    \A k \in 1..Len(out) :
        out[k].token # "Error" =>
            out[k].indent = LeadingWhitespace(source, out[k].source_bytes.start)

\* the index of the first "$" of src
FirstDollar(src) == CHOOSE p \in 1..Len(src) : src[p] = "$" /\ \A q \in 1..(p - 1) : src[q] # "$"

\* a token of the given kind over the bytes start..end
Expect(tok, start, end) == [token |-> tok, source_bytes |-> [start |-> start, end |-> end]]

\* the kind and byte range of a LexedToken, the range moved on by offset
KindAndBytes(t, offset) ==
    Expect(t.token, t.source_bytes.start + offset, t.source_bytes.end + offset)

\* the kinds and byte ranges of the tokens, moved on by offset
Shifted(tokens, offset) == [k \in 1..Len(tokens) |-> KindAndBytes(tokens[k], offset)]

\* The tokens claimed for the source "lit${expr}": the string's start, its
\* literal text if any, Dollar, CurlyOpen, the tokens that expr gives when
\* it is lexed on its own outside of any string, CurlyClose, StringEnd.
TemplateTokens(src) ==
    LET p == FirstDollar(src)
        lit_end == ByteLen(SubSeq(src, 1, p - 1))
        expr == SubSeq(src, p + 2, Len(src) - 2)
        expr_end == lit_end + 2 + ByteLen(expr)
    IN  <<Expect("StringStartDouble", 0, 1)>>
        \o (IF p > 2 THEN <<Expect("StringLiteral", 1, lit_end)>> ELSE <<>>)
        \o <<Expect("Dollar", lit_end, lit_end + 1),
              Expect("CurlyOpen", lit_end + 1, lit_end + 2)>>
        \o Shifted(Drain(TokenLexerNew, expr, MaxStrTokens), lit_end + 2)
        \o <<Expect("CurlyClose", expr_end, expr_end + 1),
              Expect("StringEnd", expr_end + 1, expr_end + 2)>>

\* C11: a string "lit${expr}" is lexed as StringStart, StringLiteral,
\* Dollar, CurlyOpen, the tokens of expr as they are lexed outside of a
\* string, CurlyClose and, back in Literal mode, StringEnd.
C11_TemplateExpression ==
    LET expected == TemplateTokens(source)
    IN  /\ Len(out) <= Len(expected)
        /\ \A k \in 1..Len(out) : KindAndBytes(out[k], 0) = expected[k]
        /\ ReturnedNone => Len(out) = Len(expected)

\* C12: the token after a Dollar is one Id over the whole word, with the
\* lexer back in Literal mode, when an identifier follows the "$"; it is
\* Error when what follows is neither an identifier nor "{".
C12_IdAfterDollar ==
    \A k \in 2..Len(out) :
        out[k - 1].token = "Dollar" =>
            LET b == out[k].source_bytes.start
                c == CharAt(source, CharIndexAt(source, b))
                word == WordAt(source, b)
            IN  CASE is_id_start(c) /\ word \notin KeywordWords ->
                       /\ out[k].token = "Id"
                       /\ out[k].source_bytes.end = b + ByteLen(word)
                       /\ k = Len(out) => Top(lexer.string_mode_stack).mode = "Literal"
                  [] c = "{" -> out[k].token = "CurlyOpen"
                  [] OTHER -> out[k].token = "Error"

\* the indices of the quote characters of src between its first and last
\* characters
InnerQuotes(src) == {i \in 2..(Len(src) - 1) : QuoteOf(src[i]) # "NoQuote"}

\* the byte at which the character i of src starts
ByteOf(src, i) == ByteLen(SubSeq(src, 1, i - 1))

\* whether the string mode stack is the given one once token k is the last
\* token returned
StackAfter(k, stack) == k = Len(out) => lexer.string_mode_stack = stack

\* C13: in q1 ${ pre q2 inner q2 post } q1 the inner string is lexed as
\* StringStart, one StringLiteral over the whole inner text (braces
\* included) and StringEnd, in a Literal mode of its own above the template
\* expression, which is still open after the inner string and is closed by
\* the final "}".
C13_InnerString ==
    LET qs == InnerQuotes(source)
        a == CHOOSE i \in qs : \A j \in qs : i <= j
        b == CHOOSE i \in qs : \A j \in qs : j <= i
        sa == ByteOf(source, a)
        sb == ByteOf(source, b)
        outer == Literal(QuoteOf(source[1]))
        inner == Literal(QuoteOf(source[a]))
    IN  /\ \A k \in 1..Len(out) :
               LET t == out[k]
                   s == t.source_bytes.start
               IN  /\ s = sa =>
                          /\ t.token = StringStart(QuoteOf(source[a]), FALSE)
                          /\ t.source_bytes.end = sa + 1
                          /\ StackAfter(k, <<outer, TemplateExpression, inner>>)
                   /\ (sa < s /\ s < sb) =>
                          /\ t.token = "StringLiteral"
                          /\ s = sa + 1
                          /\ t.source_bytes.end = sb
                          /\ StackAfter(k, <<outer, TemplateExpression, inner>>)
                   /\ s = sb =>
                          /\ t.token = "StringEnd"
                          /\ t.source_bytes.end = sb + 1
                          /\ StackAfter(k, <<outer, TemplateExpression>>)
                   /\ s = ByteLen(source) - 2 =>
                          /\ t.token = "CurlyClose"
                          /\ StackAfter(k, <<outer>>)
        /\ ReturnedNone =>
               /\ out[Len(out)].token = "StringEnd"
               /\ out[Len(out)].source_bytes.end = ByteLen(source)
               /\ lexer.string_mode_stack = <<>>

\* C13 witness: '${'{}'.f foo}' has been lexed to its end
C13_Witness ==
    /\ ReturnedNone
    /\ source = <<"'", "$", "{", "'", "{", "}", "'", ".", "f", " ", "f", "o", "o", "}", "'">>
    /\ Len(out) = 12


\* whether the token t lies on one line
OnOneLine(t) == t.span.start.line = t.span.end.line

\* the characters of src that make up the bytes start..end, or <<"?">> when
\* the range does not begin and end between two characters
CharsOf(src, start, end) ==
    LET i == CharIndexAt(src, start)
        j == CharIndexAt(src, end)
    IN  IF i = 0 \/ j = 0 THEN <<"?">> ELSE SubSeq(src, i, j - 1)

\* whether the span and the byte range of t have the display width and the
\* UTF-8 length of the characters cs
MeasuredAs(t, cs) ==
    /\ cs # <<"?">>
    /\ t.span.end.column - t.span.start.column = SumWidth(cs, 1, Len(cs))
    /\ t.source_bytes.end - t.source_bytes.start = SumBytes(cs, 1, Len(cs))

\* C14: for every token on a single line, the columns of its span differ by
\* the sum of the display widths of its characters, and its byte range is as
\* long as the sum of their UTF-8 lengths.
C14_WidthAndBytes ==
    \A k \in 1..Len(out) :
        OnOneLine(out[k]) =>
            MeasuredAs(out[k],
                       CharsOf(source, out[k].source_bytes.start, out[k].source_bytes.end))


\* whether the characters from index i of src on are one space and then the
\* complete word "if"
SpaceThenIf(src, i) ==
    /\ StartsWith(src, i, <<" ", "i", "f">>)
    /\ ~Matches("is_id_continue", CharAt(src, i + 3))

\* C15: a token that starts at the word "else" is ElseIf over "else if"
\* exactly when one space and the complete word "if" follow; otherwise it
\* is Else over the four bytes of "else".
C15_ElseIfExactly ==
    \A k \in 1..Len(out) :
        LET b == out[k].source_bytes.start
        IN  WordAt(source, b) = <<"e", "l", "s", "e">>
            => IF SpaceThenIf(source, CharIndexAt(source, b) + 4)
               THEN KindAndBytes(out[k], 0) = Expect("ElseIf", b, b + 7)
               ELSE KindAndBytes(out[k], 0) = Expect("Else", b, b + 4)


\* the index of the first character from index i of src on that is the
\* quote character q, or 0 when there is none
FirstQuote(src, i, q) ==
    LET hits == {j \in i..Len(src) : src[j] = q}
    IN  IF hits = {} THEN 0 ELSE CHOOSE j \in hits : \A h \in hits : j <= h

\* whether a carriage return that no line feed follows is among the
\* characters i..j of src
LoneCR(src, i, j) == \E h \in i..j : src[h] = "\r" /\ CharAt(src, h + 1) # "\n"

\* The raw string that token k opens, with its closing quote at character
\* j: token k + 1 is one StringLiteral over all the bytes up to the closing
\* quote, token k + 2 is StringEnd over the closing quote, and the lexer
\* does not stop before it has returned them.
RawStringLexed(k, j) ==
    LET b == out[k].source_bytes.end
        e == ByteOf(source, j)
    IN  /\ k + 1 <= Len(out) => KindAndBytes(out[k + 1], 0) = Expect("StringLiteral", b, e)
        /\ k + 2 <= Len(out) => KindAndBytes(out[k + 2], 0) = Expect("StringEnd", e, e + 1)
        /\ ReturnedNone => k + 2 <= Len(out)

\* whether token k opens a raw string
OpensRaw(k) == out[k].token \in {StringStart("Single", TRUE), StringStart("Double", TRUE)}

\* the index of the first character after the opening of token k that is
\* the quote character of that opening
ClosingQuote(k) ==
    LET i == CharIndexAt(source, out[k].source_bytes.end)
    IN  FirstQuote(source, i, source[i - 1])

\* C16 as stated: after the StringStart of a raw string everything up to the
\* first occurrence of the opening quote is one StringLiteral token, and
\* StringEnd follows it.
C16_RawAsStated ==
    \A k \in 1..Len(out) :
        (OpensRaw(k) /\ ClosingQuote(k) # 0) => RawStringLexed(k, ClosingQuote(k))

\* C16: after the StringStart of a raw string, everything up to the first
\* occurrence of the opening quote is one StringLiteral token ("$" and
\* backslashes included, so no Dollar token comes from it) and StringEnd
\* follows it, as long as that text holds no carriage return without a line
\* feed after it.
C16_RawString ==
    \A k \in 1..Len(out) :
        (/\ OpensRaw(k)
         /\ ClosingQuote(k) # 0
         /\ ~LoneCR(source, CharIndexAt(source, out[k].source_bytes.end), ClosingQuote(k)))
        => RawStringLexed(k, ClosingQuote(k))

\* C16 witness: r'$\' has been lexed as StringStart, the StringLiteral $\
\* and StringEnd
C16_Witness ==
    /\ ReturnedNone
    /\ source = <<"r", "'", "$", "\\", "'">>
    /\ Len(out) = 3
    /\ KindAndBytes(out[2], 0) = Expect("StringLiteral", 2, 4)


RECURSIVE Escaped(_, _)
\* Whether the character p of the string that src[1] opens is escaped: it
\* is "$", a backslash or the string's quote, and the character before it
\* is a backslash that is not escaped itself.
Escaped(src, p) ==
    /\ p > 2
    /\ src[p] \in {"$", "\\", src[1]}
    /\ src[p - 1] = "\\"
    /\ ~Escaped(src, p - 1)

\* whether the character p is a "$" or the string's quote, not escaped
Special(src, p) == src[p] \in {"$", src[1]} /\ ~Escaped(src, p)

\* the index of the first special character from index i on, 0 if none
NextSpecial(src, i) ==
    LET hits == {p \in i..Len(src) : Special(src, p)}
    IN  IF hits = {} THEN 0 ELSE CHOOSE p \in hits : \A h \in hits : p <= h

\* the index of the quote that closes the string, Len(src) + 1 if none
StringClose(src) ==
    LET hits == {p \in 2..Len(src) : src[p] = src[1] /\ Special(src, p)}
    IN  IF hits = {} THEN Len(src) + 1 ELSE CHOOSE p \in hits : \A h \in hits : p <= h

\* whether token k is lexed in Literal mode: it follows the StringStart, a
\* StringLiteral or the identifier of a "$"
InLiteralMode(k) ==
    \/ k = 2
    \/ out[k - 1].token = "StringLiteral"
    \/ k > 2 /\ out[k - 1].token = "Id" /\ out[k - 2].token = "Dollar"

\* The token claimed at the character s of the string, in Literal mode: a
\* special character is the StringEnd or a Dollar; otherwise all characters
\* up to the next special character, escaped ones included, are one
\* StringLiteral; without a special character to come, or with a carriage
\* return that no line feed follows, the token is an Error.
LiteralTokenAt(t, s, e) ==
    IF Special(source, s)
    THEN KindAndBytes(t, 0)
           = Expect(IF source[s] = "$" THEN "Dollar" ELSE "StringEnd",
                    ByteOf(source, s), ByteOf(source, s) + 1)
    ELSE IF e = 0 \/ LoneCR(source, s, e - 1)
         THEN t.token = "Error"
         ELSE KindAndBytes(t, 0) = Expect("StringLiteral", ByteOf(source, s), ByteOf(source, e))

\* C17: in the string that the first character of the source opens, an
\* escaped "$", backslash or quote stays inside the StringLiteral fragment
\* and neither ends the string nor starts a template, and a backslash
\* before any other character leaves that character lexed as it is lexed
\* without the backslash.
C17_Escapes ==
    \A k \in 2..Len(out) :
        LET s == CharIndexAt(source, out[k - 1].source_bytes.end)
        IN  (/\ out[k - 1].token # "Error"
             /\ s <= StringClose(source)
             /\ InLiteralMode(k))
            => LiteralTokenAt(out[k], s, NextSpecial(source, s))

\* C17 witness: "\$" has been lexed as StringStart, the StringLiteral \$
\* and StringEnd
C17_Witness ==
    /\ ReturnedNone
    /\ source = <<"\"", "\\", "$", "\"">>
    /\ Len(out) = 3
    /\ KindAndBytes(out[2], 0) = Expect("StringLiteral", 1, 3)
    /\ out[3].token = "StringEnd"


\* the number of line breaks ("\n", alone or after "\r") among the first n
\* characters of src
LineBreaks(src, n) == Cardinality({p \in 1..n : src[p] = "\n"})

\* whether a line break, "\n" or "\r\n", starts at the character i of src,
\* and the number of its bytes
BreakAt(src, i) ==
    IF CharAt(src, i) = "\n" THEN 1
    ELSE IF CharAt(src, i) = "\r" /\ CharAt(src, i + 1) = "\n" THEN 2
    ELSE 0

\* whether t is a NewLine token over n bytes that ends in column 1 of the
\* line after the one it starts on
IsLineBreak(t, n) ==
    /\ t.token = "NewLine"
    /\ t.source_bytes.end = t.source_bytes.start + n
    /\ t.span.end = Position(t.span.start.line + 1, 1)

\* C18: a "\n" or "\r\n" that is not inside a string or a comment is one
\* NewLine token that ends in column 1 of the next line, and every token
\* starts on the line 1 + the number of line breaks before its first byte,
\* those inside multi-line comments and strings included.
C18_Lines ==
    \A k \in 1..Len(out) :
        LET t == out[k]
            i == CharIndexAt(source, t.source_bytes.start)
        IN  /\ t.span.start.line = 1 + LineBreaks(source, i - 1)
            /\ t.token = "NewLine" => IsLineBreak(t, BreakAt(source, i))
            /\ (BreakAt(source, i) # 0 /\ t.token \notin {"StringLiteral", "Error"})
               => IsLineBreak(t, BreakAt(source, i))

\* C18 witness: after a string that holds "\n", the "\r\n" that follows it
\* has been returned as a NewLine from line 2 to column 1 of line 3
C18_Witness ==
    /\ source = <<"\"", "\n", "\"", "\r", "\n">>
    /\ Len(out) = 4
    /\ out[3].token = "StringEnd"
    /\ out[3].span.start = Position(2, 1)
    /\ IsLineBreak(out[4], 2)
    /\ out[4].span.start.line = 2


\* the indices from index i of src on at which the sequence "-#" starts
Closers(src, i) == {p \in i..Len(src) : src[p] = "-" /\ CharAt(src, p + 1) = "#"}

\* C19: the comment that "#-" opens at the head of the source is one
\* CommentMulti token that ends with a "-#" coming after the opening "#-",
\* and it is one Error token when no "-#" comes after the opening.
C19_MultiLineComment ==
    Len(out) >= 1 =>
        IF Closers(source, 3) = {}
        THEN out[1].token = "Error"
        ELSE /\ out[1].token = "CommentMulti"
             /\ out[1].source_bytes.start = 0
             /\ \E p \in Closers(source, 3) : out[1].source_bytes.end = ByteOf(source, p + 2)


\* whether the dot at the character j of src belongs to the number whose
\* digits end before it: a digit follows it, or an "e" that a digit or a
\* sign follows
DotBelongs(src, j) ==
    \/ is_digit(CharAt(src, j + 1))
    \/ /\ CharAt(src, j + 1) = "e"
       /\ is_digit(CharAt(src, j + 2)) \/ CharAt(src, j + 2) \in {"+", "-"}

\* the index after the exponent "e", sign and digits at the character k of
\* src, or k when no "e" stands there
AfterExponent(src, k) ==
    IF CharAt(src, k) # "e" THEN k
    ELSE LET sign == IF CharAt(src, k + 1) \in {"+", "-"} THEN 1 ELSE 0
         IN  k + 1 + sign + CountWhile(src, k + 1 + sign, "is_digit")

\* the Number token t over the digits before the dot at character j, the
\* dot, the digits after it and the exponent
WholeNumber(t, j) ==
    t.source_bytes.end
      = ByteOf(source, AfterExponent(source, j + 1 + CountWhile(source, j + 1, "is_digit")))

\* the Number token out[k] ends before the dot at character j, where the
\* next token starts, and before an identifier that token is the Dot alone
\* and the identifier is the Id after it
NumberDotId(k, j) ==
    /\ out[k].source_bytes.end = ByteOf(source, j)
    /\ k + 1 <= Len(out) => out[k + 1].source_bytes.start = ByteOf(source, j)
    /\ (k + 1 <= Len(out) /\ is_id_start(CharAt(source, j + 1)))
       => KindAndBytes(out[k + 1], 0) = Expect("Dot", ByteOf(source, j), ByteOf(source, j) + 1)
    /\ (k + 2 <= Len(out) /\ is_id_start(CharAt(source, j + 1)))
       => KindAndBytes(out[k + 2], 0)
            = Expect("Id", ByteOf(source, j) + 1,
                     ByteOf(source, j) + 1 + ByteLen(WordAt(source, ByteOf(source, j) + 1)))
    /\ ReturnedNone => k + 1 <= Len(out)

\* C20: when a dot follows the digits of a Number token, the dot is part of
\* the token, with the fraction and exponent after it, when a digit follows
\* the dot or an "e" that a digit or a sign follows; otherwise the token
\* ends before the dot, and when an identifier follows the dot the next
\* tokens are Dot and Id.
C20_NumberDot ==
    \A k \in 1..Len(out) :
        LET i == CharIndexAt(source, out[k].source_bytes.start)
            j == i + CountWhile(source, i, "is_digit")
        IN  (out[k].token = "Number" /\ CharAt(source, j) = ".")
            => IF DotBelongs(source, j) THEN WholeNumber(out[k], j) ELSE NumberDotId(k, j)

\* C20 witness: 9.ex has been lexed as the Number 9, Dot and the Id ex
C20_Witness ==
    /\ ReturnedNone
    /\ source = <<"9", ".", "e", "x">>
    /\ Len(out) = 3
    /\ KindAndBytes(out[1], 0) = Expect("Number", 0, 1)
    /\ out[2].token = "Dot"
    /\ KindAndBytes(out[3], 0) = Expect("Id", 2, 4)


\* the tokens the original has returned since the clone was taken
SinceClone == SubSeq(out, copy.at + 1, Len(out))

\* whether the last call on the clone was next() and returned None
CopyReturnedNone == copy.last.op = "next" /\ ~IsSome(copy.last.res)

\* C21: the tokens a clone returns are those the original returns from the
\* moment of cloning on, whatever calls are made on either in between: of
\* the two sequences returned so far one is the head of the other, and they
\* are equal once both have returned None.
C21_CloneYieldsSame ==
    copy.taken =>
        /\ \A k \in 1..Len(copy.out) : k <= Len(SinceClone) => copy.out[k] = SinceClone[k]
        /\ (ReturnedNone /\ CopyReturnedNone) => Len(copy.out) = Len(SinceClone)

\* C21 witness: a clone taken inside a string, in Literal mode, has
\* returned the StringEnd and then None, and the original has returned
\* None as well
C21_Witness ==
    /\ copy.taken
    /\ copy.at = 1
    /\ source = <<"\"", "\"">>
    /\ ReturnedNone /\ CopyReturnedNone
    /\ Len(copy.out) = 1
    /\ copy.out[1].token = "StringEnd"


\* whether the position a is not after the position b: by line, then column
PositionLeq(a, b) == a.line < b.line \/ (a.line = b.line /\ a.column <= b.column)

\* C22: the span of every token returned starts no later than it ends, and
\* it starts where the span of the token returned before it ends.
C22_SpansChained ==
    \A k \in 1..Len(out) :
        /\ PositionLeq(out[k].span.start, out[k].span.end)
        /\ k > 1 => out[k].span.start = out[k - 1].span.end


\* C23: a pop_front, pop_back or make_sub_tuple on one tuple leaves the
\* shared vector as it is, and leaves every other tuple on that vector with
\* the length and the elements it had.
C23_StorageUntouched ==
    [][tlast'.ops # tlast.ops
         => /\ data' = data
            /\ AsSlice(kept'.tuple, data') = AsSlice(kept.tuple, data)]_vars

\* C23 witness: a tuple past the 16 bit bounds has been cloned, and a
\* pop_back on it has left the clone, an Inner::Slice on the same Ptr until
\* then, at its full length
C23_Witness ==
    /\ tlast.op = "pop_back"
    /\ tlast.before = Tuple("Slice", 1, U16Max + 3)
    /\ kept = Kept(Tuple("Slice", 1, U16Max + 3), FALSE)
    /\ tup = Tuple("Slice", 1, U16Max + 2)


\* whether the last operation has produced a tuple: a make_sub_tuple that
\* returned Some, or a pop that returned a value
Produced ==
    \/ tlast.op = "make_sub_tuple" /\ tlast.res # NoTuple
    \/ tlast.op \in {"pop_front", "pop_back"} /\ tlast.value # -1

\* C24: the tuple that a pop_front, pop_back or make_sub_tuple has produced
\* is a Slice16 when both of its bounds fit in 16 bits, and a Slice only
\* when one of them does not.
C24_SmallestForm ==
    Produced =>
        /\ tlast.res.inner \in {"Slice", "Slice16"}
        /\ tlast.res.inner = "Slice16" <=> FitsU16(tlast.res.start, tlast.res.end)

(***************************************************************************)
(* The formatter (crates/format).  Its implementation is described by the  *)
(* specification and by the expectations of format_tests.rs; the part      *)
(* modelled here is a program of top-level statements, each an optional    *)
(* `#[fmt:skip]` attribute, an optional `x =` and one unit: an identifier, *)
(* a parenthesised identifier, a tuple, a list, or a call with             *)
(* parentheses.  Items of tuples, lists and calls are identifiers.         *)
(***************************************************************************)

IdChars == {"a", "b", "f", "x"}

FmtOpeners == {"(", "["}

FmtClosers == {")", "]"}

\* the end of the run of identifier characters that starts at i
RECURSIVE IdEnd(_, _)
IdEnd(text, i) ==
    IF i < Len(text) /\ text[i + 1] \in IdChars THEN IdEnd(text, i + 1) ELSE i

\* the end of the attribute that starts at i: its closing bracket
RECURSIVE AttrEnd(_, _)
AttrEnd(text, i) ==
    IF i >= Len(text) \/ text[i] = "]" THEN i ELSE AttrEnd(text, i + 1)

FmtToken(kind, text, i, j) ==
    [kind |-> kind, text |-> SubSeq(text, i, j), start |-> i, end |-> j]

\* the tokens of a text from position i on: spaces separate tokens, a line
\* break is a token of its own
RECURSIVE FormatTokens(_, _)
FormatTokens(text, i) ==
    IF i > Len(text) THEN <<>>
    ELSE IF text[i] = " " THEN FormatTokens(text, i + 1)
    ELSE IF text[i] = "\n" THEN
        <<FmtToken("nl", text, i, i)>> \o FormatTokens(text, i + 1)
    ELSE IF text[i] = "#" THEN
        <<FmtToken("attr", text, i, AttrEnd(text, i))>>
            \o FormatTokens(text, AttrEnd(text, i) + 1)
    ELSE IF text[i] \in IdChars THEN
        <<FmtToken("id", text, i, IdEnd(text, i))>>
            \o FormatTokens(text, IdEnd(text, i) + 1)
    ELSE <<FmtToken(text[i], text, i, i)>> \o FormatTokens(text, i + 1)

\* the statements of a token sequence, each the sequence of its tokens: a
\* line break ends a statement unless it is inside brackets or follows `=`
\* or an attribute
RECURSIVE StatementTokens(_, _, _, _)
StatementTokens(toks, k, depth, cur) ==
    IF k > Len(toks) THEN (IF cur = <<>> THEN <<>> ELSE <<cur>>)
    ELSE IF toks[k].kind = "nl" THEN
        IF cur = <<>> \/ cur[Len(cur)].kind = "nl" THEN
            StatementTokens(toks, k + 1, depth, cur)
        ELSE IF depth > 0 \/ cur[Len(cur)].kind \in {"=", "attr"} THEN
            StatementTokens(toks, k + 1, depth, Append(cur, toks[k]))
        ELSE <<cur>> \o StatementTokens(toks, k + 1, 0, <<>>)
    ELSE IF toks[k].kind \in FmtOpeners THEN
        StatementTokens(toks, k + 1, depth + 1, Append(cur, toks[k]))
    ELSE IF toks[k].kind \in FmtClosers THEN
        StatementTokens(toks, k + 1, depth - 1, Append(cur, toks[k]))
    ELSE StatementTokens(toks, k + 1, depth, Append(cur, toks[k]))

\* a token sequence without its line breaks
NoBreaks(toks) == SelectSeq(toks, LAMBDA t : t.kind # "nl")

RECURSIVE IdTexts(_, _)
IdTexts(flat, k) ==
    IF k > Len(flat) THEN <<>>
    ELSE IF flat[k].kind = "id" THEN <<flat[k].text>> \o IdTexts(flat, k + 1)
    ELSE IdTexts(flat, k + 1)

\* the items, a comma after the last item opening an empty one
FmtItems_counting_trailing_comma(flat) ==
    IdTexts(flat, 1)
        \o (IF flat # <<>> /\ flat[Len(flat)].kind = "," THEN <<<<>>>> ELSE <<>>)

\* the items of a bracketed token sequence without line breaks: the
\* identifiers between its commas; a comma after the last item adds none
FmtItems(flat) == IdTexts(flat, 1)

\* the unit made of the tokens u: its kind, its items, whether a line break
\* stands between its brackets and whether a comma follows its last item
FmtUnit(u) ==
    LET call   == Len(u) > 1 /\ u[1].kind = "id"
        first  == IF call THEN 3 ELSE 2
        inside == SubSeq(u, first, Len(u) - 1)
        flat   == NoBreaks(inside)
        commas == \E k \in 1..Len(flat) : flat[k].kind = ","
    IN  [kind     |-> IF Len(u) = 1 THEN "Id"
                      ELSE IF call THEN "Call"
                      ELSE IF u[1].kind = "[" THEN "List"
                      ELSE IF commas THEN "Tuple" ELSE "Nested",
         callee   |-> IF Len(u) = 1 \/ call THEN u[1].text ELSE <<>>,
         items    |-> IF Len(u) = 1 THEN <<>> ELSE FmtItems(flat),
         broken   |-> Len(flat) < Len(inside),
         trailing |-> flat # <<>> /\ flat[Len(flat)].kind = ","]

\* the statement made of the tokens g
FmtStatement(g) ==
    LET skip   == g[1].kind = "attr"
        body   == IF skip THEN SubSeq(g, 3, Len(g)) ELSE g
        assign == Len(body) > 1 /\ body[2].kind = "="
        broken == assign /\ body[3].kind = "nl"
        first  == IF broken THEN 4 ELSE IF assign THEN 3 ELSE 1
    IN  [skip   |-> skip,
         attr   |-> IF skip THEN g[1].text ELSE <<>>,
         target |-> IF assign THEN body[1].text ELSE <<>>,
         broken |-> broken,
         unit   |-> FmtUnit(SubSeq(body, first, Len(body))),
         start  |-> body[1].start,
         end    |-> body[Len(body)].end]

\* the statements of a text
FmtParse(text) ==
    LET groups == StatementTokens(FormatTokens(text, 1), 1, 0, <<>>)
    IN  [k \in 1..Len(groups) |-> FmtStatement(groups[k])]

RECURSIVE Spaces(_)
Spaces(n) == IF n = 0 THEN <<>> ELSE <<" ">> \o Spaces(n - 1)

\* items separated by a comma and a space
RECURSIVE JoinItems(_, _)
JoinItems(items, k) ==
    IF k > Len(items) THEN <<>>
    ELSE items[k] \o (IF k < Len(items) THEN <<",", " ">> ELSE <<>>)
             \o JoinItems(items, k + 1)

FmtOpen(unit) == IF unit.kind = "List" THEN <<"[">> ELSE <<"(">>

FmtClose(unit) == IF unit.kind = "List" THEN <<"]">> ELSE <<")">>

\* a unit rendered on one line; a tuple of one item keeps its comma
OneLine(unit) ==
    IF unit.kind = "Id" THEN unit.callee
    ELSE unit.callee \o FmtOpen(unit) \o JoinItems(unit.items, 1)
             \o (IF unit.kind = "Tuple" /\ Len(unit.items) = 1 THEN <<",">> ELSE <<>>)
             \o FmtClose(unit)

\* a unit is broken only when its line would exceed line_length
BreaksUnit_when_too_long(unit, col, line_length) ==
    /\ unit.kind \in {"Tuple", "List"}
    /\ col + Len(OneLine(unit)) > line_length

\* whether a unit that starts at column col is emitted in broken form: a
\* tuple or a list when its line would exceed line_length, a call with
\* arguments when a line break stands between its parentheses in the input
BreaksUnit(unit, col, line_length) ==
    \/ /\ unit.kind \in {"Tuple", "List"}
       /\ col + Len(OneLine(unit)) > line_length
    \/ /\ unit.kind = "Call"
       /\ unit.items # <<>>
       /\ unit.broken

\* the items of a broken tuple or list from item k on, each followed by a
\* comma, as many on a line as line_length allows
RECURSIVE GreedyLines(_, _, _, _, _)
GreedyLines(items, k, line, indent, line_length) ==
    IF k > Len(items) THEN (IF line = <<>> THEN <<>> ELSE <<line>>)
    ELSE IF line = <<>> THEN
        GreedyLines(items, k + 1, Spaces(indent) \o items[k] \o <<",">>,
                    indent, line_length)
    ELSE IF Len(line) + Len(items[k]) + 2 <= line_length THEN
        GreedyLines(items, k + 1, line \o <<" ">> \o items[k] \o <<",">>,
                    indent, line_length)
    ELSE <<line>> \o GreedyLines(items, k, <<>>, indent, line_length)

\* the arguments of a broken call, a comma after each of them
ArgLines_with_trailing_comma(items, indent) ==
    [k \in 1..Len(items) |-> Spaces(indent) \o items[k] \o <<",">>]

\* the arguments of a broken call, one on a line, a comma after each but
\* the last
ArgLines(items, indent) ==
    [k \in 1..Len(items) |->
        Spaces(indent) \o items[k] \o (IF k < Len(items) THEN <<",">> ELSE <<>>)]

\* the lines of a unit of a statement indented by indent, the first of them
\* starting at column col
UnitLines(unit, indent, col, line_length) ==
    IF ~BreaksUnit(unit, col, line_length) THEN <<OneLine(unit)>>
    ELSE <<unit.callee \o FmtOpen(unit)>>
         \o (IF unit.kind = "Call" THEN ArgLines(unit.items, indent + 2)
             ELSE GreedyLines(unit.items, 1, <<>>, indent + 2, line_length))
         \o <<Spaces(indent) \o FmtClose(unit)>>

\* the lines of a statement that is formatted: a line break after `=` in
\* the input is kept
FormattedLines(s, line_length) ==
    IF s.target = <<>> THEN UnitLines(s.unit, 0, 0, line_length)
    ELSE IF s.broken THEN
        LET lines == UnitLines(s.unit, 2, 2, line_length)
        IN  <<s.target \o <<" ", "=">>, Spaces(2) \o Head(lines)>> \o Tail(lines)
    ELSE
        LET lines == UnitLines(s.unit, 0, Len(s.target) + 3, line_length)
        IN  <<s.target \o <<" ", "=", " ">> \o Head(lines)>> \o Tail(lines)

\* a statement under the attribute formatted like any other
SkippedLines_formatted(s, text, line_length) ==
    <<s.attr>> \o FormattedLines(s, line_length)

\* the lines of a statement under `#[fmt:skip]`: the attribute, then the
\* statement as it stands in the text
SkippedLines(s, text, line_length) ==
    <<s.attr, SubSeq(text, s.start, s.end)>>

StatementLines(s, text, line_length) ==
    IF s.skip THEN SkippedLines(s, text, line_length)
    ELSE FormattedLines(s, line_length)

RECURSIVE JoinLines(_, _)
JoinLines(lines, k) ==
    IF k > Len(lines) THEN <<>>
    ELSE lines[k] \o <<"\n">> \o JoinLines(lines, k + 1)

RECURSIVE FormatStatements(_, _, _, _)
FormatStatements(stmts, k, text, line_length) ==
    IF k > Len(stmts) THEN <<>>
    ELSE JoinLines(StatementLines(stmts[k], text, line_length), 1)
             \o FormatStatements(stmts, k + 1, text, line_length)

\* format(text) under the option line_length
Format(text, line_length) ==
    FormatStatements(FmtParse(text), 1, text, line_length)

\* format(fmt.text), made at most MaxFmtPasses times over its own output
MaxFmtPasses == 2

FormatPass ==
    /\ fmt.pass < MaxFmtPasses
    /\ fmt' = [text        |-> Format(fmt.text, fmt.line_length),
               line_length |-> fmt.line_length,
               input       |-> fmt.text,
               pass        |-> fmt.pass + 1]
    /\ UNCHANGED <<lexvars, tupvars, pipe, ctx, hostvars>>

\* the sources given to the formatter: statements with up to MaxFmtItems
\* items, written with and without spaces and line breaks
MaxFmtItems == 3

FmtGaps == {<<>>, <<" ", " ">>, <<"\n", " ">>}

ItemTexts == {<<"a">>, <<"b", "b", "b", "b", "b">>}

ItemLists(min) == UNION {[1..n -> ItemTexts] : n \in min..MaxFmtItems}

RECURSIVE ItemsSource(_, _, _)
ItemsSource(items, k, gap) ==
    IF k > Len(items) THEN <<>>
    ELSE items[k] \o (IF k < Len(items) THEN <<",">> \o gap ELSE <<>>)
             \o ItemsSource(items, k + 1, gap)

Bracketed(open, close, items, inner, gap, comma) ==
    open \o inner \o ItemsSource(items, 1, gap) \o comma \o inner \o close

CallSources ==
    {Bracketed(<<"f", "(">>, <<")">>, items, inner, gap, <<>>) :
        items \in ItemLists(0), inner \in FmtGaps, gap \in FmtGaps}

UnitSources ==
    ItemTexts
    \cup {<<"(">> \o inner \o item \o inner \o <<")">> :
            item \in ItemTexts, inner \in FmtGaps}
    \cup {Bracketed(<<"(">>, <<")">>, items, inner, gap, <<",">>) :
            items \in ItemLists(1), inner \in FmtGaps, gap \in FmtGaps}
    \cup {Bracketed(<<"(">>, <<")">>, items, inner, gap, <<>>) :
            items \in ItemLists(2), inner \in FmtGaps, gap \in FmtGaps}
    \cup {Bracketed(<<"[">>, <<"]">>, items, inner, gap, comma) :
            items \in ItemLists(1), inner \in FmtGaps, gap \in FmtGaps,
            comma \in {<<>>, <<",">>}}
    \cup CallSources

StatementSources ==
    UnitSources
    \cup {<<"x">> \o eq \o rhs :
            eq \in {<<" ", "=", " ">>, <<" ", " ", "=", "\n", " ", " ", " ">>},
            rhs \in ItemTexts \cup CallSources}

SkipAttrs ==
    {<<"#", "[", "f", "m", "t", ":", " ", "s", "k", "i", "p", "]">>,
     <<"#", "[", "f", "m", "t", ":", "s", "k", "i", "p", "]">>}

FmtBefore == <<"x", " ", " ", "=", " ", " ", "f", "(", "a", ",", "\n", "a", ")", "\n">>

FmtAfter == <<"[", "a", " ", ",", "a", "]", "\n">>

FmtSources ==
    {before \o attr \o statement \o <<"\n">> \o after :
        before \in {<<>>, FmtBefore},
        attr \in {<<>>} \cup {a \o <<"\n">> : a \in SkipAttrs},
        statement \in StatementSources,
        after \in {<<>>, FmtAfter}}

LineLengths == {12, 100}

\* every source under every line_length
InitFormat ==
    /\ fmt \in {[text |-> s, line_length |-> n, input |-> <<>>, pass |-> 0] :
                    s \in FmtSources, n \in LineLengths}
    /\ pipe = NoPipe
    /\ ctx = NoDisplay
    /\ meta = NoMetaKey
    /\ fncall = NoFnCall
    /\ objs = NoObjects
    /\ LexerIdle
    /\ TupleIdle

SpecFormat == InitFormat /\ [][FormatPass]_vars

\* the text that was given to the formatter first, once it has been formatted
Formatted == fmt.pass = 1

Reformatted == fmt.pass >= 2

HasPrefix(t, p) == Len(p) <= Len(t) /\ SubSeq(t, 1, Len(p)) = p

HasSuffix(t, p) == Len(p) <= Len(t) /\ SubSeq(t, Len(t) - Len(p) + 1, Len(t)) = p

\* FmtBefore and FmtAfter as the formatter is expected to write them
NormalBefore ==
    <<"x", " ", "=", " ", "f", "(", "\n", " ", " ", "a", ",", "\n",
      " ", " ", "a", "\n", ")", "\n">>

NormalAfter == <<"[", "a", ",", " ", "a", "]", "\n">>

Normal(t) == IF t = FmtBefore THEN NormalBefore ELSE IF t = FmtAfter THEN NormalAfter ELSE t

\* the input is the statement `before`, the attribute `attr` on a line of
\* its own, one more statement, and the statement `after`
SkipsBetween(before, attr, after) ==
    /\ HasPrefix(fmt.input, before \o attr \o <<"\n">>)
    /\ HasSuffix(fmt.input, <<"\n">> \o after)
    /\ after = <<>> => ~HasSuffix(fmt.input, <<"\n">> \o FmtAfter)

\* the statement that follows the attribute, as it stands in the input
Skipped(before, attr, after) ==
    SubSeq(fmt.input, Len(before) + Len(attr) + 2, Len(fmt.input) - Len(after) - 1)

SingleStatements == {s \o <<"\n">> : s \in StatementSources}

\* a text with a line break before its last character
BrokenText(t) == \E i \in 1..(Len(t) - 1) : t[i] = "\n"

\* a text with a line break after `=`, spaces apart
BrokenAfterEq(t) ==
    \E i \in 1..Len(t), j \in 1..Len(t) :
        /\ i < j
        /\ t[i] = "="
        /\ t[j] = "\n"
        /\ \A k \in (i + 1)..(j - 1) : t[k] = " "

\* a text with a call whose parentheses hold an argument and a line break
BrokenCall(t) ==
    \E o \in 2..Len(t), c \in 2..Len(t) :
        /\ o < c
        /\ t[o - 1] = "f"
        /\ t[o] = "("
        /\ t[c] = ")"
        /\ \E k \in o..c : t[k] = "\n"
        /\ \E k \in o..c : t[k] \in {"a", "b"}

ClosesBroken(t, i) ==
    /\ t[i] \in FmtClosers
    /\ \E j \in 1..(i - 1) : t[j] = "\n" /\ \A k \in (j + 1)..(i - 1) : t[k] = " "

\* the character before the line break before position i is a comma
CommaBefore(t, i) ==
    \E j \in 2..(i - 1) :
        /\ t[j] = "\n"
        /\ t[j - 1] = ","
        /\ \A k \in (j + 1)..(i - 1) : t[k] = " "

\* the bracket closed at position i opens a call's arguments
ClosesCall(t, i) ==
    \E o \in 2..(i - 1) :
        /\ t[o] = "("
        /\ t[o - 1] = "f"
        /\ \A k \in (o + 1)..(i - 1) : t[k] \notin FmtOpeners

\* no statement of the input is under the skip attribute
NothingSkipped == \A i \in 1..Len(fmt.input) : fmt.input[i] # "#"

LookupId(id) == [node |-> "Id", id |-> id, args |-> <<>>, with_parens |-> FALSE]

\* LookupNode::Call { args, with_parens }
LookupCall(args, with_parens) ==
    [node |-> "Call", id |-> "", args |-> args, with_parens |-> with_parens]

\* the piped value becomes an argument of the last call whatever its
\* parentheses
CompilePipe_ignoring_parens(lhs, chain) ==
    IF chain # <<>> /\ chain[Len(chain)].node = "Call"
    THEN [chain EXCEPT ![Len(chain)].args = Append(@, lhs)]
    ELSE Append(chain, LookupCall(<<lhs>>, TRUE))

\* `lhs >> chain`, the chain given as its links after the root: the piped
\* value is one more argument of a trailing call without parentheses, and
\* the argument of a new call otherwise
CompilePipe(lhs, chain) ==
    IF chain # <<>> /\ chain[Len(chain)].node = "Call"
                   /\ ~chain[Len(chain)].with_parens
    THEN [chain EXCEPT ![Len(chain)].args = Append(@, lhs)]
    ELSE Append(chain, LookupCall(<<lhs>>, TRUE))

PipeInto ==
    /\ ~pipe.piped
    /\ pipe' = [pipe EXCEPT !.piped = TRUE, !.res = CompilePipe(pipe.lhs, pipe.chain)]
    /\ UNCHANGED <<lexvars, tupvars, fmt, ctx, hostvars>>

\* the expressions piped: values into chains `foo`, `foo.bar`, and these
\* called with up to MaxPipeArgs arguments, with and without parentheses
MaxPipeArgs == 2

PipeValues == {42, 99}

PipeArgs == UNION {[1..n -> PipeValues] : n \in 0..MaxPipeArgs}

PipeChains ==
    {access \o call :
        access \in {<<>>, <<LookupId("bar")>>},
        call \in {<<>>} \cup {<<LookupCall(args, p)>> : args \in PipeArgs, p \in BOOLEAN}}

InitPipe ==
    /\ pipe \in {[lhs |-> v, chain |-> c, piped |-> FALSE, res |-> <<>>] :
                     v \in PipeValues, c \in PipeChains}
    /\ fmt = NoFormat
    /\ ctx = NoDisplay
    /\ meta = NoMetaKey
    /\ fncall = NoFnCall
    /\ objs = NoObjects
    /\ LexerIdle
    /\ TupleIdle

SpecPipe == InitPipe /\ [][PipeInto]_vars

\* what a chain does when evaluated: its accesses and calls in order, each
\* call with its arguments; the parentheses of a call play no part
Applied(chain) ==
    [k \in 1..Len(chain) |-> [node |-> chain[k].node, id |-> chain[k].id, args |-> chain[k].args]]

\* the chain that ends in a call
EndsInCall(chain, with_parens) ==
    /\ chain # <<>>
    /\ chain[Len(chain)].node = "Call"
    /\ chain[Len(chain)].with_parens = with_parens

\* the chain with its last call given one more argument
WithArgument(chain, v) ==
    [chain EXCEPT ![Len(chain)] = LookupCall(Append(@.args, v), TRUE)]

\* C30: with_parens decides how a value is piped into a call:
\* `99 >> foo.bar 42` is `foo.bar(42, 99)` and `99 >> foo.bar(42)` is
\* `foo.bar(42)(99)`
C30_PipeIntoCall ==
    pipe.piped =>
        /\ EndsInCall(pipe.chain, FALSE) =>
               Applied(pipe.res) = Applied(WithArgument(pipe.chain, pipe.lhs))
        /\ EndsInCall(pipe.chain, TRUE) =>
               Applied(pipe.res)
                   = Applied(pipe.chain \o <<LookupCall(<<pipe.lhs>>, TRUE)>>)

\* 99 was piped into `foo.bar(42)`
C30_Witness ==
    /\ pipe.piped
    /\ pipe.lhs = 99
    /\ pipe.chain = <<LookupId("bar"), LookupCall(<<42>>, TRUE)>>
    /\ Applied(pipe.res)
         = Applied(<<LookupId("bar"), LookupCall(<<42>>, TRUE), LookupCall(<<99>>, TRUE)>>)

\* C34: in peek(n) the count token_queue_len + 1 - max(n, token_queue_len)
\* is never negative, whatever n and the length of the queue
C34_NoUnderflow ==
    [][last'.op = "peek" => tokens_to_add(Len(token_queue), last'.n) >= 0]_vars

\* C32: next() returns None only when every byte of the source has been
\* consumed
C32_NoneOnlyAtEnd == ReturnedNone => lexer.current_byte = ByteLen(source)

\* the mode under entry k of a string-mode stack
ModeBelow(stack, k) == IF k > 1 THEN stack[k - 1].mode ELSE "None"

\* C33: the string-mode stack is well formed: TemplateStart is the top
\* entry and sits on a Literal, TemplateExpression sits on a Literal,
\* TemplateExpressionInlineMap sits on a TemplateExpression, RawStart and
\* RawEnd are the top entry
C33_StackWellFormed ==
    \A k \in 1..Len(lexer.string_mode_stack) :
        LET m == lexer.string_mode_stack[k].mode
            below == ModeBelow(lexer.string_mode_stack, k)
        IN  /\ m = "TemplateStart" =>
                   k = Len(lexer.string_mode_stack) /\ below = "Literal"
            /\ m = "TemplateExpression" => below = "Literal"
            /\ m = "TemplateExpressionInlineMap" => below = "TemplateExpression"
            /\ m \in {"RawStart", "RawEnd"} => k = Len(lexer.string_mode_stack)

\* the bounds of a tuple in Slice or Slice16 form lie inside the vector
BoundsInside(t) ==
    t.inner \in {"Slice", "Slice16"} => (0 <= t.start /\ t.start <= t.end /\ t.end <= data)

\* C35: after any sequence of make_sub_tuple, pop_front, pop_back and clone
\* every tuple in Slice or Slice16 form has 0 <= start <= end <= length of
\* the vector
C35_BoundsInside == BoundsInside(tup) /\ BoundsInside(kept.tuple)

\* the only element of a vector was popped: the tuple's bounds are both at
\* the end of the vector; and a clone of the tuple as it was is kept
C35_Witness ==
    /\ data = 1
    /\ tlast.op = "pop_front"
    /\ tup = Tuple("Slice16", 1, 1)
    /\ kept.tuple = FullTuple(1)

\* the elements the tuple showed before the last operation, and those it
\* shows after it, as bounds in the vector
ShownBefore == AsSlice(tlast.before, data)

ShownAfter == AsSlice(tlast.res, data)

\* C36: pop_front on a non-empty tuple returns its first element and
\* leaves its former elements 1..len in order; on an empty tuple it
\* returns None and leaves the tuple unchanged
C36_PopFront ==
    tlast.op = "pop_front" =>
        IF ShownBefore.start = ShownBefore.end
        THEN tlast.value = -1 /\ tlast.res = tlast.before
        ELSE /\ tlast.value = ShownBefore.start
             /\ ShownAfter = [start |-> ShownBefore.start + 1, end |-> ShownBefore.end]

\* the first of the three elements that a slice of a vector of four shows
\* was popped
C36_Witness ==
    /\ data = 4
    /\ tlast.op = "pop_front"
    /\ tlast.before = Tuple("Slice16", 1, 4)
    /\ tlast.value = 1
    /\ tup = Tuple("Slice16", 2, 4)

RECURSIVE DisplayValues(_, _, _)
DisplayValues(values, i, text) ==
    IF i > Len(values) THEN [text |-> text, res |-> "Ok"]
    ELSE IF values[i] = "err"
         THEN [text |-> IF i > 1 THEN text \o <<", ">> ELSE text, res |-> "Err"]
         ELSE DisplayValues(values, i + 1,
                            (IF i > 1 THEN text \o <<", ">> ELSE text) \o <<"v">>)

\* KTuple::display(ctx) of a tuple whose storage has the address id
KTupleDisplay(c, id, values) ==
    LET pushed == Append(c.containers, id)
        r == DisplayValues(values, 1, c.text \o <<"(">>)
    IN  IF r.res = "Ok"
        THEN [containers |-> SubSeq(pushed, 1, Len(pushed) - 1),
              text       |-> r.text \o <<")">>,
              res        |-> "Ok"]
        ELSE [containers |-> pushed, text |-> r.text, res |-> "Err"]

Display ==
    /\ ctx.res = "none"
    /\ \E r \in {KTupleDisplay(ctx, ctx.id, ctx.values)} :
           ctx' = [ctx EXCEPT !.containers = r.containers, !.text = r.text, !.res = r.res]
    /\ UNCHANGED <<lexvars, tupvars, fmt, pipe, hostvars>>

\* tuples of up to MaxDisplayValues values, displayed inside up to
\* MaxDisplayDepth containers that are being rendered
MaxDisplayValues == 3

MaxDisplayDepth == 2

ContainerIds == {1, 2}

InitDisplay ==
    /\ ctx \in {[containers |-> cs, text |-> <<>>, before |-> cs, id |-> id,
                  values |-> vs, res |-> "none"] :
                    cs \in UNION {[1..n -> ContainerIds] : n \in 0..MaxDisplayDepth},
                    id \in ContainerIds,
                    vs \in UNION {[1..n -> {"ok", "err"}] : n \in 0..MaxDisplayValues}}
    /\ fmt = NoFormat
    /\ pipe = NoPipe
    /\ meta = NoMetaKey
    /\ fncall = NoFnCall
    /\ objs = NoObjects
    /\ LexerIdle
    /\ TupleIdle

SpecDisplay == InitDisplay /\ [][Display]_vars

\* C38: display leaves the containers being rendered as it found them, on
\* the path where a value's display returns an error as well
C38_ContainersRestored == ctx.res # "none" => ctx.containers = ctx.before

\* ---------------------------------------------------------------------------
\* MetaKeyId and its conversion from a byte
\* ---------------------------------------------------------------------------

\* the variants of MetaKeyId, in declaration order: #[repr(u8)] numbers them from 0
MetaKeyIds ==
    << "Add", "Subtract", "Multiply", "Divide", "Modulo",
       "Less", "LessOrEqual", "Greater", "GreaterOrEqual", "Equal", "NotEqual",
       "Index", "Display", "Iterator", "Negate", "Not", "Type",
       "Tests", "Test", "PreTest", "PostTest", "Main", "Named", "Invalid" >>

\* `id as u8`: the discriminant of a variant
Discriminant(id) == CHOOSE d \in 0..(Len(MetaKeyIds) - 1) : MetaKeyIds[d + 1] = id

\* transmute(byte): the variant whose discriminant is the byte
Transmute(byte) == MetaKeyIds[byte + 1]

\* try_from accepting the byte of Invalid as well
MetaKeyIdTryFrom_accepting_invalid(byte) ==
    IF byte <= Discriminant("Invalid")
    THEN [res |-> "Ok", key |-> Transmute(byte), err |-> 0]
    ELSE [res |-> "Err", key |-> "none", err |-> byte]

\* MetaKeyId::try_from(byte)
MetaKeyIdTryFrom(byte) ==
    IF byte < Discriminant("Invalid")
    THEN [res |-> "Ok", key |-> Transmute(byte), err |-> 0]
    ELSE [res |-> "Err", key |-> "none", err |-> byte]

\* the largest byte converted
MaxByte == 255

\* a byte is converted
TryFrom ==
    /\ meta.res = "none"
    /\ \E r \in {MetaKeyIdTryFrom(meta.byte)} :
        meta' = [meta EXCEPT !.res = r.res, !.key = r.key, !.err = r.err]
    /\ UNCHANGED <<lexvars, tupvars, fmt, pipe, ctx, fncall, objs>>

InitMeta ==
    /\ meta \in [byte : 0..MaxByte, res : {"none"}, key : {"none"}, err : {0}]
    /\ fmt = NoFormat
    /\ pipe = NoPipe
    /\ ctx = NoDisplay
    /\ fncall = NoFnCall
    /\ objs = NoObjects
    /\ LexerIdle
    /\ TupleIdle

SpecMeta == InitMeta /\ [][TryFrom]_vars

\* the variants that name a meta key
NamedKeys == {MetaKeyIds[i] : i \in 1..(Len(MetaKeyIds) - 1)}

\* C39: try_from returns Ok with the variant whose discriminant is the byte for
\* every byte below the discriminant of Invalid, and Err with the byte for every
\* other byte; so an Ok key is never Invalid and converts back to the byte.
C39_TryFrom ==
    meta.res # "none" =>
        IF meta.byte < 23
        THEN /\ meta.res = "Ok"
             /\ meta.key \in NamedKeys
             /\ Discriminant(meta.key) = meta.byte
        ELSE /\ meta.res = "Err"
             /\ meta.err = meta.byte

\* the byte of Named, the last key, converts to Named
C39_Witness == meta.byte = 22 /\ meta.res = "Ok" /\ meta.key = "Named"

\* ---------------------------------------------------------------------------
\* builtins registered with single_arg_fn!
\* ---------------------------------------------------------------------------

\* the variants of Value a builtin is called with
ValueVariants == {"Number", "Bool", "Str", "List", "Map"}

\* the builtins registered with single_arg_fn!: map name, function name, expected variant
SingleArgFns ==
    { <<"math", "abs", "Number">>, <<"math", "degrees", "Number">>,
      <<"map", "keys", "Map">>,
      <<"string", "escape", "Str">>, <<"string", "lines", "Str">>,
      <<"io", "exists", "Str">>, <<"io", "read_string", "Str">> }

\* the closure without the test of the number of arguments
single_arg_fn_without_count(map_name, fn_name, type, args) ==
    IF Len(args) >= 1
    THEN IF args[1] = type
         THEN [ran |-> TRUE, res |-> "body", error |-> NoError]
         ELSE [ran |-> FALSE, res |-> "Err",
               error |-> [format |-> "{}.{} only accepts a {} as its argument, found {}",
                          args |-> <<map_name, fn_name, type, args[1]>>]]
    ELSE [ran |-> FALSE, res |-> "Err",
          error |-> [format |-> "{}.{} expects one argument, found {}",
                     args |-> <<map_name, fn_name, Len(args)>>]]

\* the closure single_arg_fn! registers, called with args: whether $body ran, and
\* the result ("body" is what $body evaluates to); the last argument of the first
\* format! is the value handed to type_as_string
single_arg_fn(map_name, fn_name, type, args) ==
    IF Len(args) = 1
    THEN IF args[1] = type
         THEN [ran |-> TRUE, res |-> "body", error |-> NoError]
         ELSE [ran |-> FALSE, res |-> "Err",
               error |-> [format |-> "{}.{} only accepts a {} as its argument, found {}",
                          args |-> <<map_name, fn_name, type, args[1]>>]]
    ELSE [ran |-> FALSE, res |-> "Err",
          error |-> [format |-> "{}.{} expects one argument, found {}",
                     args |-> <<map_name, fn_name, Len(args)>>]]

\* the most arguments a builtin is called with
MaxArgs == 2

\* the argument lists
ArgLists == UNION {[1..n -> ValueVariants] : n \in 0..MaxArgs}

\* a builtin is called
CallBuiltin ==
    /\ fncall.res = "none"
    /\ \E r \in {single_arg_fn(fncall.map, fncall.fn, fncall.expected, fncall.args)} :
        fncall' = [fncall EXCEPT !.ran = r.ran, !.res = r.res, !.error = r.error]
    /\ UNCHANGED <<lexvars, tupvars, fmt, pipe, ctx, meta, objs>>

InitBuiltin ==
    /\ \E f \in SingleArgFns, args \in ArgLists :
        fncall = [map |-> f[1], fn |-> f[2], expected |-> f[3], args |-> args,
                  res |-> "none", ran |-> FALSE, error |-> NoError]
    /\ fmt = NoFormat
    /\ pipe = NoPipe
    /\ ctx = NoDisplay
    /\ meta = NoMetaKey
    /\ objs = NoObjects
    /\ LexerIdle
    /\ TupleIdle

SpecBuiltin == InitBuiltin /\ [][CallBuiltin]_vars

\* C40: the body runs exactly when there is one argument of the expected variant;
\* with another number of arguments the result is an Err reporting the number,
\* with one argument of another variant an Err naming the expected variant and
\* the argument found, and in neither case the body runs.
C40_SingleArg ==
    fncall.res # "none" =>
        LET n == Len(fncall.args) IN
        /\ fncall.ran <=> (n = 1 /\ fncall.args[1] = fncall.expected)
        /\ fncall.ran => fncall.res = "body"
        /\ n # 1 =>
            /\ fncall.res = "Err"
            /\ fncall.error.format = "{}.{} expects one argument, found {}"
            /\ fncall.error.args = <<fncall.map, fncall.fn, n>>
        /\ (n = 1 /\ fncall.args[1] # fncall.expected) =>
            /\ fncall.res = "Err"
            /\ fncall.error.format = "{}.{} only accepts a {} as its argument, found {}"
            /\ fncall.error.args = <<fncall.map, fncall.fn, fncall.expected, fncall.args[1]>>

\* math.abs called with a number and a string reports two arguments
C40_Witness ==
    /\ fncall.fn = "abs"
    /\ fncall.args = <<"Number", "Str">>
    /\ fncall.res = "Err"
    /\ ~fncall.ran
    /\ fncall.error.args = <<"math", "abs", 2>>

\* ---------------------------------------------------------------------------
\* host objects: assignment, copy and deep_copy
\* ---------------------------------------------------------------------------

\* the variables of a script
ObjVars == {"x", "y", "z"}

\* TestObject::make_object(x): a new object is added to the objects of the runtime
make_object(heap, x) == Append(heap, x)

\* as_number: the field of the object a variable is bound to
as_number(o, var) == o.heap[o.env[var]]

\* the methods that write the field of an instance, with their argument
Mutations ==
    [method : {"add_assign", "subtract_assign"}, arg : {50, 100}]
        \cup [method : {"set_all_instances"}, arg : {99}]
        \cup [method : {"invert"}, arg : {0}]

\* add_assign, subtract_assign, set_all_instances and invert on a field
Mutated(x, m) ==
    CASE m.method = "add_assign" -> x + m.arg
      [] m.method = "subtract_assign" -> x - m.arg
      [] m.method = "set_all_instances" -> m.arg
      [] m.method = "invert" -> x * (-1)

\* `dst = src`: the variable is bound to the same object
AssignObject(o, dst, src) ==
    [o EXCEPT !.env[dst] = o.env[src]]

\* copy binding the variable to the object it was given
CopyObject_sharing(o, dst, src) ==
    [o EXCEPT !.env[dst] = o.env[src]]

\* `dst = copy src` and `dst = koto.deep_copy src`: the variable is bound to a new
\* object with the same field
CopyObject(o, dst, src) ==
    [o EXCEPT !.heap = make_object(o.heap, as_number(o, src)),
              !.env[dst] = Len(o.heap) + 1]

\* the most statements that write to an object in a script
MaxObjSteps == 2

\* the numbers objects are made with
ObjNumbers == {42, 100}

Bound(var) == objs.env[var] # 0

\* x = make_object n
MakeObject ==
    /\ ~Bound("x")
    /\ \E n \in ObjNumbers :
        objs' = [objs EXCEPT !.heap = make_object(objs.heap, n),
                             !.env["x"] = Len(objs.heap) + 1,
                             !.op = "make_object", !.var = "x"]
    /\ UNCHANGED <<lexvars, tupvars, fmt, pipe, ctx, meta, fncall>>

\* y = x
Assign ==
    /\ Bound("x") /\ ~Bound("y")
    /\ \E o \in {AssignObject(objs, "y", "x")} :
        objs' = [o EXCEPT !.op = "assign", !.var = "y"]
    /\ UNCHANGED <<lexvars, tupvars, fmt, pipe, ctx, meta, fncall>>

\* z = copy x, z = koto.deep_copy x
Copy ==
    /\ Bound("x") /\ ~Bound("z")
    /\ \E how \in {"copy", "deep_copy"} :
        \E o \in {CopyObject(objs, "z", "x")} :
            objs' = [o EXCEPT !.op = how, !.var = "z"]
    /\ UNCHANGED <<lexvars, tupvars, fmt, pipe, ctx, meta, fncall>>

\* var += n, var -= n, var.set_all_instances make_object n, var.invert()
Mutate ==
    /\ objs.steps < MaxObjSteps
    /\ \E var \in ObjVars, m \in Mutations :
        /\ Bound(var)
        /\ objs' = [objs EXCEPT !.heap[objs.env[var]] = Mutated(@, m),
                                !.op = "mutate", !.var = var, !.with = m,
                                !.steps = @ + 1]
    /\ UNCHANGED <<lexvars, tupvars, fmt, pipe, ctx, meta, fncall>>

InitObjects ==
    /\ objs = NoObjects
    /\ fmt = NoFormat
    /\ pipe = NoPipe
    /\ ctx = NoDisplay
    /\ meta = NoMetaKey
    /\ fncall = NoFnCall
    /\ LexerIdle
    /\ TupleIdle

SpecObjects == InitObjects /\ [][MakeObject \/ Assign \/ Copy \/ Mutate]_vars

\* the variables a write through var has to show in: x and y for x and y, z for z
AliasesOf(var) == IF var = "z" THEN {"z"} ELSE {"x", "y"}

====
